---- MODULE Spec2Model ----
(***************************************************************************)
(* Model of the extendible-hash storage engine of silly_rusty_kv           *)
(* (src/src/hash_storage.rs): the directory (bucket_lookup, global_level,  *)
(* bucket_count), the pages of the buckets file, and the operations put,   *)
(* get and delete as HashStorage::handle_cmd runs them.                    *)
(*                                                                         *)
(* Scaling.  Byte sizes are the real ones (a page is 4096 bytes, a record  *)
(* is 13 bytes plus key and value).  A value is vec![byte; len], written   *)
(* [byte |-> b, len |-> n], as test_hash_storage::record_from_size builds  *)
(* it.  Keys are one byte long.  The hash is HashBits wide instead of 64:  *)
(* 2_u64.pow(level) overflows at level = HashBits exactly as the code's    *)
(* pow overflows at level = 64.                                            *)
(***************************************************************************)
EXTENDS Integers, Sequences, FiniteSets, TLC

\* ---------------------------------------------------------------- bounds
\* Width of Hash in bits (u64 in the source, scaled).
HashBits == 4
\* Number of commands a behaviour executes.
MaxOps == 4

\* ------------------------------------------------------ program constants
PAGE_BYTES == 4096
HASH_BYTES == 8
BUCKET_LEVEL_BYTES == 1
BUCKET_INDEX_TYPE_BYTES == 8
BUCKET_HEADER_BYTES == BUCKET_LEVEL_BYTES
RECORD_HEADER_BYTES == 1
RECORD_KEY_HEADER_BYTES == 2
RECORD_VALUE_HEADER_BYTES == 2
MAX_RECORD_KEY_VALUE_BYTES ==
    PAGE_BYTES - BUCKET_HEADER_BYTES - RECORD_HEADER_BYTES - HASH_BYTES
        - RECORD_KEY_HEADER_BYTES - RECORD_VALUE_HEADER_BYTES

\* ----------------------------------------------------------------- inputs
\* Keys of the commands.  Each is one byte long.
Keys == {"A", "B", "C", "D", "E"}

KeyLen(key) == 1

\* hash_string_key: XxHash64 of the key, a fixed function of the key.  The
\* table has two keys with the same full hash (A, B), a key that agrees with
\* them in the low two bits only (C), and two keys that differ from these
\* in bit 0 and from each other in bit 1 (D, E).
hash_string_key(key) ==
    CASE key = "A" -> 10
      [] key = "B" -> 10
      [] key = "C" -> 14
      [] key = "D" -> 5
      [] key = "E" -> 7

\* Values of the commands: one of which two fit a page together, one that
\* fills most of a page, and one that no page can hold.
Values == { [byte |-> 2, len |-> 2000],
            [byte |-> 3, len |-> 4000],
            [byte |-> 4, len |-> 4090] }

\* The transaction ids Uuid::new_v4 produces.
Tids == {"t1", "t2"}

None == <<>>
Some(x) == <<x>>

Pow2(n) == 2 ^ n

\* ---------------------------------------------------------------- records
\* Record(hash, key, value)
Record(hash, key, value) == [hash |-> hash, key |-> key, value |-> value]

byte_len(r) ==
    RECORD_HEADER_BYTES + HASH_BYTES + RECORD_KEY_HEADER_BYTES + KeyLen(r.key)
        + RECORD_VALUE_HEADER_BYTES + r.value.len

RECURSIVE records_byte_len(_)
records_byte_len(records) ==
    IF records = <<>> THEN 0
    ELSE byte_len(Head(records)) + records_byte_len(Tail(records))

\* Bucket::update_remaining_byte_count
remaining_byte_count(records) ==
    PAGE_BYTES - BUCKET_HEADER_BYTES - records_byte_len(records)

\* ------------------------------------------------------------ buckets file
\* The pages of the buckets file: pages[i + 1] is the page of bucket i, as
\* the level byte and the records packed behind it.
ZeroPage == [level |-> 0, records |-> <<>>]

\* Bucket::read_from_file
read_from_file(file, bucket_index) ==
    [ bucket_index |-> bucket_index,
      level |-> file[bucket_index + 1].level,
      records |-> file[bucket_index + 1].records,
      remaining_byte_space |-> remaining_byte_count(file[bucket_index + 1].records) ]

\* Bucket::save_to_file: writes the whole page at the bucket's offset; a
\* write behind the end of the file extends it.
save_to_file(file, bucket) ==
    LET n == IF bucket.bucket_index + 1 > Len(file)
             THEN bucket.bucket_index + 1 ELSE Len(file)
    IN [ i \in 1..n |->
           IF i = bucket.bucket_index + 1
           THEN [level |-> bucket.level, records |-> bucket.records]
           ELSE IF i <= Len(file) THEN file[i] ELSE ZeroPage ]

\* ---------------------------------------------------- directory persistence
\* to_le_bytes of an unsigned integer of the given width in bytes.
RECURSIVE to_le_bytes(_, _)
to_le_bytes(n, width) ==
    IF width = 0 THEN << >>
    ELSE << n % 256 >> \o to_le_bytes(n \div 256, width - 1)

\* from_le_bytes
RECURSIVE from_le_bytes(_)
from_le_bytes(bytes) ==
    IF bytes = << >> THEN 0
    ELSE Head(bytes) + 256 * from_le_bytes(Tail(bytes))

\* seek(Start(0)) and write_all(buf): the bytes replace the head of the file,
\* what the file holds behind them stays.
write_at_start(file, buf) ==
    IF Len(buf) >= Len(file) THEN buf
    ELSE buf \o SubSeq(file, Len(buf) + 1, Len(file))

\* Mutant of addr_count_to_global_level: the loop runs once more
\* (`length >= 1` for `length > 1`).
RECURSIVE addr_count_to_global_level_ge(_)
addr_count_to_global_level_ge(length) ==
    IF length >= 1 THEN 1 + addr_count_to_global_level_ge(length \div 2) ELSE 0

\* addr_count_to_global_level
RECURSIVE addr_count_to_global_level(_)
addr_count_to_global_level(length) ==
    IF length > 1 THEN 1 + addr_count_to_global_level(length \div 2) ELSE 0

\* save_directory: the bytes of the entries, one after the other.
RECURSIVE directory_bytes(_)
directory_bytes(vec) ==
    IF vec = << >> THEN << >>
    ELSE to_le_bytes(Head(vec), BUCKET_INDEX_TYPE_BYTES) \o directory_bytes(Tail(vec))

\* save_directory: the directory file after the save.
save_directory(vec, file) ==
    write_at_start(file,
        to_le_bytes(addr_count_to_global_level(Len(vec)), BUCKET_LEVEL_BYTES)
            \o directory_bytes(vec))

\* Mutant of directory_entry: the offset does not advance with i, every
\* entry is the first one.
directory_entry_first(file, i) ==
    from_le_bytes(SubSeq(file, BUCKET_LEVEL_BYTES + 1,
                         BUCKET_LEVEL_BYTES + BUCKET_INDEX_TYPE_BYTES))

\* load_directory: entry i of the buffer read behind the level byte.
directory_entry(file, i) ==
    from_le_bytes(SubSeq(file, BUCKET_LEVEL_BYTES + BUCKET_INDEX_TYPE_BYTES * i + 1,
                         BUCKET_LEVEL_BYTES + BUCKET_INDEX_TYPE_BYTES * i
                             + BUCKET_INDEX_TYPE_BYTES))

\* load_directory: (vec![0], 0) for an empty file; else the level and the
\* 2^level entries.  read_exact fails on a file that is too short and the
\* unwrap panics.
load_directory(file) ==
    IF Len(file) = 0
    THEN [ result |-> "ok", bucket_lookup |-> << 0 >>, global_level |-> 0 ]
    ELSE LET level == from_le_bytes(SubSeq(file, 1, BUCKET_LEVEL_BYTES))
             addr_count == Pow2(level)
         IN IF Len(file) < BUCKET_LEVEL_BYTES + addr_count * BUCKET_INDEX_TYPE_BYTES
            THEN [ result |-> "panic", bucket_lookup |-> << >>, global_level |-> level ]
            ELSE [ result |-> "ok",
                   bucket_lookup |-> [ i \in 1..addr_count |-> directory_entry(file, i - 1) ],
                   global_level |-> level ]

\* save_buckets_file: the head of the buckets file after the save.
save_buckets_file(count) == to_le_bytes(count, BUCKET_INDEX_TYPE_BYTES)

\* load_buckets_file on a file that is not empty: the count in its head.
load_buckets_file(header) == from_le_bytes(header)

\* A buckets file: the bytes of the count at its head and the pages behind
\* them; the empty file has neither.
EmptyBucketsFile == [ header |-> << >>, pages |-> << >> ]

\* Mutant of load_buckets_file_or_setup: the empty file is set up but the
\* count returned is the one in its head.
load_buckets_file_or_setup_count_of_head(buckets_file) ==
    IF buckets_file = EmptyBucketsFile
    THEN [ bucket_count |-> 0,
           header |-> [ i \in 1..BUCKET_INDEX_TYPE_BYTES |-> 0 ],
           pages |-> << ZeroPage >> ]
    ELSE [ bucket_count |-> load_buckets_file(buckets_file.header),
           header |-> buckets_file.header, pages |-> buckets_file.pages ]

\* load_buckets_file, both branches: a file of length 0 is set up by saving
\* an empty bucket 0 of level 0 (the bytes of the count before its page are
\* a hole, read as 0) and the count is 1; else the count is read.
load_buckets_file_or_setup(buckets_file) ==
    IF buckets_file = EmptyBucketsFile
    THEN [ bucket_count |-> 1,
           header |-> [ i \in 1..BUCKET_INDEX_TYPE_BYTES |-> 0 ],
           pages |-> save_to_file(<< >>, [ bucket_index |-> 0, level |-> 0,
                                            records |-> << >>,
                                            remaining_byte_space |-> 0 ]) ]
    ELSE [ bucket_count |-> load_buckets_file(buckets_file.header),
           header |-> buckets_file.header, pages |-> buckets_file.pages ]

\* HashStorage::new: the fields of the engine and the buckets file behind it.
HashStorage_new(dir_file, buckets_file) ==
    LET d == load_directory(dir_file)
        b == load_buckets_file_or_setup(buckets_file)
    IN [ result |-> d.result,
         e |-> [ bucket_lookup |-> d.bucket_lookup, global_level |-> d.global_level,
                 bucket_count |-> b.bucket_count, pages |-> b.pages ],
         header |-> b.header ]

\* ------------------------------------------------------------------ state
VARIABLES
    bucket_lookup,   \* HashStorage.bucket_lookup: entry i is bucket_lookup[i + 1]
    global_level,    \* HashStorage.global_level
    bucket_count,    \* HashStorage.bucket_count
    pages,           \* the pages of the buckets file
    status,          \* "running", or "panicked" once a command has panicked
    last,            \* history: the command executed last and its result
    prev,            \* history: the command executed before it
    pre,             \* history: the engine as it was when `last` started
    shadow,          \* history: key -> Some(value last put) or None
    distinct_puts,   \* history: so far only puts of keys not put before
    nops,            \* history: number of commands executed
    directory_file,  \* the bytes of the directory file
    buckets_header,  \* the bytes at the head of the buckets file
    wal,             \* Wal.data: transaction id -> the mutations staged under it
    begun,           \* the ids Uuid::new_v4 has produced so far
    last_tid,        \* history: the transaction_id the last command came with
    wal_pre,         \* history: the WAL as it was when `last` started
    ended,           \* history: id -> the commits and rollbacks that took its list
    mode,            \* the front-end: "server", "stdin", "repl", or "none"
    arrived,         \* source -> the lines read from it so far
    closed,          \* the sources whose end has been read
    conn,            \* source -> the task that reads it: position and t_id
    chan,            \* the command channel: the messages sent and not received
    task,            \* the task that owns the engine: position and request at hand
    resp,            \* source -> the output sent on the oneshot of its request
    sig,             \* the signal task: has it sent, and what was pending then
    main,            \* run_server: "accepting", or "joining" after the break
    replies,         \* history: source -> its lines executed, with their outputs
    codec            \* a bucket in memory, the bytes of its last record, a buckets
                     \* file, the bucket saved to it, what was parsed and read

vars == << bucket_lookup, global_level, bucket_count, pages, status,
           last, prev, pre, shadow, distinct_puts, nops,
           directory_file, buckets_header, wal, begun, last_tid, wal_pre, ended,
           mode, arrived, closed, conn, chan, task, resp, sig, main, replies,
           codec >>

\* The variables of the front-ends.
front_vars == << mode, arrived, closed, conn, chan, task, resp, sig, main, replies >>

\* The history variables of the commands of the engine and the WAL.
hist_vars == << last, prev, pre, shadow, distinct_puts, nops, last_tid, wal_pre, ended >>

\* The engine's fields and file as one value.
Engine == [ bucket_lookup |-> bucket_lookup, global_level |-> global_level,
            bucket_count |-> bucket_count, pages |-> pages ]

\* ------------------------------------------------------------ hash engine
\* HashStorage::hash_to_remainder
hash_to_remainder(e, hash) == hash % Pow2(e.global_level)

\* put: the search `find(|x| x.0 == record.0 && x.1 == record.1)`; the
\* position of the first record with the hash and the key, 0 when none.
RECURSIVE find_record(_, _, _, _)
find_record(records, hash, key, i) ==
    IF i > Len(records) THEN 0
    ELSE IF records[i].hash = hash /\ records[i].key = key THEN i
    ELSE find_record(records, hash, key, i + 1)

\* put: the fold that splits the records of the bucket in two; the records
\* whose remainder at the new level is above the original remainder go to
\* the new bucket.
split_new(records, level, og_bucket_remainder) ==
    SelectSeq(records, LAMBDA x : x.hash % Pow2(level) > og_bucket_remainder)

split_original(records, level, og_bucket_remainder) ==
    SelectSeq(records, LAMBDA x : ~(x.hash % Pow2(level) > og_bucket_remainder))

\* Mutant of local_split_lookup: >= for >, so the entries of the original
\* remainder are pointed to the new bucket too.
local_split_lookup_ge(lookup, bucket_index, level, og_bucket_remainder, new_bucket_index) ==
    [ i \in 1..Len(lookup) |->
        IF lookup[i] = bucket_index /\ (i - 1) % Pow2(level) >= og_bucket_remainder
        THEN new_bucket_index ELSE lookup[i] ]

\* Mutant of local_split_lookup: the entries of other buckets are pointed to
\* the new bucket as well when their remainder is above the original one.
local_split_lookup_any_bucket(lookup, bucket_index, level, og_bucket_remainder, new_bucket_index) ==
    [ i \in 1..Len(lookup) |->
        IF (i - 1) % Pow2(level) > og_bucket_remainder
        THEN new_bucket_index ELSE lookup[i] ]

\* put, local split: every entry that points to the bucket and whose index
\* has a remainder above the original one is pointed to the new bucket.
local_split_lookup(lookup, bucket_index, level, og_bucket_remainder, new_bucket_index) ==
    [ i \in 1..Len(lookup) |->
        IF lookup[i] = bucket_index /\ (i - 1) % Pow2(level) > og_bucket_remainder
        THEN new_bucket_index ELSE lookup[i] ]

\* Mutant of global_split_lookup: the directory is extended by two copies of
\* itself.
global_split_lookup_two_copies(lookup, og_bucket_remainder, new_bucket_index) ==
    [ i \in 1..(3 * Len(lookup)) |->
        IF i - 1 = Len(lookup) + og_bucket_remainder THEN new_bucket_index
        ELSE lookup[((i - 1) % Len(lookup)) + 1] ]

\* Mutant of global_split_lookup: the entry of the original remainder in the
\* lower half is pointed to the new bucket.
global_split_lookup_lower_half(lookup, og_bucket_remainder, new_bucket_index) ==
    [ i \in 1..(2 * Len(lookup)) |->
        IF i - 1 = og_bucket_remainder THEN new_bucket_index
        ELSE IF i <= Len(lookup) THEN lookup[i] ELSE lookup[i - Len(lookup)] ]

\* put, global split: the directory is doubled by a copy of itself and the
\* entry old_len + og_bucket_remainder is pointed to the new bucket.
global_split_lookup(lookup, og_bucket_remainder, new_bucket_index) ==
    [ i \in 1..(2 * Len(lookup)) |->
        IF i - 1 = Len(lookup) + og_bucket_remainder THEN new_bucket_index
        ELSE IF i <= Len(lookup) THEN lookup[i] ELSE lookup[i - Len(lookup)] ]

\* put: one iteration of the split loop (lines 334-412) on the in-memory
\* bucket; the engine and the bucket the loop continues with.
split_step(e, bucket, record) ==
    LET og_bucket_remainder == hash_to_remainder(e, record.hash) % Pow2(bucket.level)
        level == bucket.level + 1
        original == split_original(bucket.records, level, og_bucket_remainder)
        new == split_new(bucket.records, level, og_bucket_remainder)
        new_bucket_index == e.bucket_count
        bucket1 == [ bucket EXCEPT !.level = level, !.records = original,
                         !.remaining_byte_space = remaining_byte_count(original) ]
        new_bucket == [ bucket_index |-> new_bucket_index, level |-> level,
                        records |-> new,
                        remaining_byte_space |-> remaining_byte_count(new) ]
        file == save_to_file(save_to_file(e.pages, bucket1), new_bucket)
        local == level <= e.global_level
        lookup == IF local
                  THEN local_split_lookup(e.bucket_lookup, bucket.bucket_index, level,
                                          og_bucket_remainder, new_bucket_index)
                  ELSE global_split_lookup(e.bucket_lookup, og_bucket_remainder,
                                           new_bucket_index)
        new_remainder == record.hash % Pow2(level)
    IN [ e |-> [ bucket_lookup |-> lookup,
                 global_level |-> IF local THEN e.global_level ELSE e.global_level + 1,
                 bucket_count |-> e.bucket_count + 1,
                 pages |-> file ],
         bucket |-> IF new_remainder > og_bucket_remainder THEN new_bucket ELSE bucket1 ]

\* put: the iteration that raises the level to the width of Hash.  The
\* power 2^level overflows (a panic in a debug build, 0 and then a remainder
\* by zero, a panic too, in a release build): in the fold when the bucket
\* holds a record (line 348, nothing is saved), else after both pages are
\* saved (line 391 or 409).  The result is what the panic leaves behind: the
\* file; the fields in memory die with the process.  (A directory of 2^G
\* entries may exhaust the memory before: the process ends just the same.)
split_overflow(e, bucket, record) ==
    IF bucket.records # <<>> THEN e
    ELSE LET level == bucket.level + 1
             bucket1 == [ bucket EXCEPT !.level = level ]
             new_bucket == [ bucket_index |-> e.bucket_count, level |-> level,
                             records |-> <<>>,
                             remaining_byte_space |-> remaining_byte_count(<<>>) ]
         IN [ e EXCEPT !.pages = save_to_file(save_to_file(e.pages, bucket1), new_bucket),
                       !.bucket_count = e.bucket_count + 1 ]

\* Mutant of put_fits: the free space is asked for the whole record even
\* when the key is already in the bucket.
put_fits_whole_record(bucket, record) ==
    bucket.remaining_byte_space >= byte_len(record)

\* Mutant of put_fits: a record whose key is in the bucket is overwritten in
\* place whatever the length of the new value.
put_fits_any_overwrite(bucket, record) ==
    \/ find_record(bucket.records, record.hash, record.key, 1) # 0
    \/ bucket.remaining_byte_space >= byte_len(record)

\* put: does the record go into the bucket as it is (lines 312-332)?
put_fits(bucket, record) ==
    LET i == find_record(bucket.records, record.hash, record.key, 1)
    IN IF i # 0
       THEN \/ bucket.records[i].value.len >= record.value.len
            \/ record.value.len - bucket.records[i].value.len <= bucket.remaining_byte_space
       ELSE bucket.remaining_byte_space >= byte_len(record)

\* Mutant of put_records: the record is pushed even when the key is there.
put_records_push(records, record) == Append(records, record)

\* put: the records of the bucket with the record overwritten in place or
\* pushed at the end.
put_records(records, record) ==
    LET i == find_record(records, record.hash, record.key, 1)
    IN IF i # 0 THEN [ records EXCEPT ![i].value = record.value ]
       ELSE Append(records, record)

\* put: the loop (lines 310-413).  The result is "ok" (Ok(()) returned) or
\* "panic"; iters counts the split iterations.
RECURSIVE put_loop(_, _, _, _)
put_loop(e, bucket, record, iters) ==
    IF put_fits(bucket, record)
    THEN [ e |-> [ e EXCEPT !.pages =
                     save_to_file(e.pages,
                         [ bucket EXCEPT !.records = put_records(bucket.records, record) ]) ],
           result |-> "ok", iters |-> iters ]
    ELSE IF bucket.level + 1 >= HashBits
    THEN [ e |-> split_overflow(e, bucket, record), result |-> "panic",
           iters |-> iters + 1 ]
    ELSE LET s == split_step(e, bucket, record)
         IN put_loop(s.e, s.bucket, record, iters + 1)

\* HashStorage::put
put(e, record) ==
    LET bucket_index == e.bucket_lookup[hash_to_remainder(e, record.hash) + 1]
    IN put_loop(e, read_from_file(e.pages, bucket_index), record, 0)

\* HashStorage::get
get(e, hash, key) ==
    LET bucket == read_from_file(e.pages, e.bucket_lookup[hash_to_remainder(e, hash) + 1])
        i == find_record(bucket.records, hash, key, 1)
    IN IF i = 0 THEN None ELSE Some(bucket.records[i].value)

\* Mutant of delete_retain: the filter keeps what it should drop.
delete_retain_inverted(records, hash, key) ==
    SelectSeq(records, LAMBDA x : x.hash = hash /\ x.key = key)

\* delete: the filter `x.0 != hash && x.1 != key` that retains records.
delete_retain(records, hash, key) ==
    SelectSeq(records, LAMBDA x : x.hash # hash /\ x.key # key)

\* Mutant of delete: the bucket emptied of the record is merged away, the
\* count of buckets goes down by one.
delete_frees_bucket(e, key) ==
    LET hash == hash_string_key(key)
        bucket == read_from_file(e.pages, e.bucket_lookup[hash_to_remainder(e, hash) + 1])
        records == delete_retain(bucket.records, hash, key)
    IN [ e EXCEPT !.pages = save_to_file(e.pages, [ bucket EXCEPT !.records = records ]),
                  !.bucket_count = IF records = << >> /\ e.bucket_count > 1
                                   THEN e.bucket_count - 1 ELSE e.bucket_count ]

\* HashStorage::delete
delete(e, key) ==
    LET hash == hash_string_key(key)
        bucket == read_from_file(e.pages, e.bucket_lookup[hash_to_remainder(e, hash) + 1])
    IN [ e EXCEPT !.pages =
           save_to_file(e.pages,
               [ bucket EXCEPT !.records = delete_retain(bucket.records, hash, key) ]) ]

\* handle_cmd, Get: self.get(hash_string_key(&cmd.0), cmd.0.as_bytes())
Lookup(e, key) == get(e, hash_string_key(key), key)

\* handle_cmd, Put: Record(hash_string_key(&cmd.0), key bytes, value bytes)
CommandRecord(key, value) == Record(hash_string_key(key), key, value)

\* ---------------------------------------------------------------------- WAL
\* Mutation::Put(PutCommand(key, value)) and Mutation::Delete(DeleteCommand(key))
MutationPut(key, value) == [ op |-> "put", key |-> key, value |-> Some(value) ]
MutationDelete(key) == [ op |-> "delete", key |-> key, value |-> None ]

\* Mutant of Wal_begin: the new list starts with what the lists in the map
\* hold (a BEGIN inside a transaction carries its mutations on).
Wal_begin_inherits(data, key) ==
    [ id \in DOMAIN data \cup {key} |->
        IF id = key
        THEN IF DOMAIN data = {} THEN << >> ELSE data[CHOOSE t \in DOMAIN data : TRUE]
        ELSE data[id] ]

\* Wal::begin: data.insert(key, vec![]).
Wal_begin(data, key) ==
    [ id \in DOMAIN data \cup {key} |-> IF id = key THEN << >> ELSE data[id] ]

\* Mutant of Wal_remove: the list stays in the map (`get` for `remove`).
Wal_remove_keeps(data, key) == data

\* Wal::retrieve_mutations: the map after data.remove(key).
Wal_remove(data, key) == [ id \in DOMAIN data \ {key} |-> data[id] ]

\* Wal::retrieve_mutations: what data.remove(key) returns.
Wal_retrieve_mutations(data, key) ==
    IF key \in DOMAIN data THEN Some(data[key]) ELSE None

\* Wal::get: the loop `for m in ms`, from the first mutation staged onwards;
\* the first one that names the key answers.
RECURSIVE Wal_scan(_, _)
Wal_scan(ms, key) ==
    IF ms = << >> THEN None
    ELSE IF Head(ms).key = key THEN Some(Head(ms).value)
    ELSE Wal_scan(Tail(ms), key)

\* Wal::get: Some(Some(value)), Some(None) or None.
Wal_get(data, id, key) ==
    IF id \in DOMAIN data THEN Wal_scan(data[id], key) ELSE None

\* Mutant of Wal_mutate: the mutation is pushed to the list of every
\* transaction.
Wal_mutate_all(data, id, m) ==
    IF id \in DOMAIN data
    THEN [ result |-> "ok", data |-> [ t \in DOMAIN data |-> Append(data[t], m) ] ]
    ELSE [ result |-> "err", data |-> data ]

\* Wal::mutate: Err(()) for an id that is not in the map, else the push.
Wal_mutate(data, id, m) ==
    IF id \in DOMAIN data
    THEN [ result |-> "ok", data |-> [ data EXCEPT ![id] = Append(@, m) ] ]
    ELSE [ result |-> "err", data |-> data ]

\* handle_cmd for a mutation: put panics or returns, delete returns.
handle_cmd(e, m) ==
    IF m.op = "put"
    THEN LET r == put(e, CommandRecord(m.key, m.value[1]))
         IN [ e |-> r.e, result |-> r.result ]
    ELSE [ e |-> delete(e, m.key), result |-> "ok" ]

\* Mutant of execute_mutation: the staging branch does not return and the
\* command goes on to the engine.
execute_mutation_no_return(e, data, m, transaction_id) ==
    IF transaction_id # None
    THEN LET w == Wal_mutate(data, transaction_id[1], m)
             h == handle_cmd(e, m)
         IN IF w.result = "ok"
            THEN [ e |-> h.e, data |-> w.data, result |-> h.result ]
            ELSE [ e |-> e, data |-> data, result |-> "panic" ]
    ELSE LET h == handle_cmd(e, m)
         IN [ e |-> h.e, data |-> data, result |-> h.result ]

\* execute_command for Put and Delete: with a transaction id the mutation is
\* staged, `wal.mutate(id, ..).unwrap()` panics on Err(()); without one the
\* engine executes it.
execute_mutation(e, data, m, transaction_id) ==
    IF transaction_id # None
    THEN LET w == Wal_mutate(data, transaction_id[1], m)
         IN IF w.result = "ok"
            THEN [ e |-> e, data |-> w.data, result |-> "ok" ]
            ELSE [ e |-> e, data |-> data, result |-> "panic" ]
    ELSE LET h == handle_cmd(e, m)
         IN [ e |-> h.e, data |-> data, result |-> h.result ]

\* Mutant of commit_loop: the mutations are applied from the last one staged
\* to the first.
RECURSIVE commit_loop_reversed(_, _, _)
commit_loop_reversed(e, muts, applied) ==
    IF muts = << >> THEN [ e |-> e, result |-> "ok", applied |-> applied ]
    ELSE LET h == handle_cmd(e, muts[Len(muts)])
         IN IF h.result = "ok"
            THEN commit_loop_reversed(h.e, SubSeq(muts, 1, Len(muts) - 1), applied + 1)
            ELSE [ e |-> h.e, result |-> h.result, applied |-> applied ]

\* execute_command for Commit: `for m in muts { storage.handle_cmd(..).await?; }`
\* A panic of handle_cmd ends the loop and the process.
RECURSIVE commit_loop(_, _, _)
commit_loop(e, muts, applied) ==
    IF muts = << >> THEN [ e |-> e, result |-> "ok", applied |-> applied ]
    ELSE LET h == handle_cmd(e, Head(muts))
         IN IF h.result = "ok"
            THEN commit_loop(h.e, Tail(muts), applied + 1)
            ELSE [ e |-> h.e, result |-> h.result, applied |-> applied ]

\* Mutant of execute_get: the WAL is not asked, the engine answers.
execute_get_engine_only(e, data, key, transaction_id) == Lookup(e, key)

\* execute_command for Get: with a transaction id the WAL answers if it has
\* an answer, else the engine does.
execute_get(e, data, key, transaction_id) ==
    LET output == IF transaction_id # None
                  THEN Wal_get(data, transaction_id[1], key)
                  ELSE None
    IN IF output # None THEN output[1] ELSE Lookup(e, key)

\* transaction_id.unwrap_or("")
unwrap_or_empty(transaction_id) ==
    IF transaction_id = None THEN "" ELSE transaction_id[1]

\* ---------------------------------------------------------------- actions
NoCommand == [ op |-> "none", key |-> "", value |-> None, result |-> None, iters |-> 0 ]

\* The front-ends of main, and no front-end for the commands on their own.
Modes == {"server", "stdin", "repl"}

\* The sources of lines: the connections of the server; the first one
\* stands for the standard input of the other front-ends.
Conns == {"c1", "c2"}

\* No SendLine.
NoMsg == [ conn |-> "", line |-> << >>, transaction_id |-> None ]

\* The task that owns the engine, with no request at hand, at position pc.
IdleTask(pc) ==
    [ pc |-> pc, msg |-> NoMsg, muts |-> << >>, put |-> None, applied |-> 0,
      start |-> None ]

\* The tasks of front-end m when they are spawned: no connection accepted,
\* no line read, no signal.
FrontInit(m) ==
    /\ mode = m
    /\ arrived = [ c \in Conns |-> << >> ]
    /\ closed = {}
    /\ conn = [ c \in Conns |->
                  [ pc |-> IF m \in {"stdin", "repl"} /\ c = "c1" THEN "read" ELSE "none",
                    t_id |-> None ] ]
    /\ chan = << >>
    /\ task = IdleTask(IF m = "stdin" THEN "recv" ELSE "select")
    /\ resp = [ c \in Conns |-> None ]
    /\ sig = [ state |-> "none", pending |-> << >> ]
    /\ main = "accepting"
    /\ replies = [ c \in Conns |-> << >> ]

\* No bucket is held beside the engine.
NoCodec == [ bucket |-> None, bytes |-> << >>, parsed |-> None, file |-> << >>,
             saved |-> None, back |-> None ]

\* HashStorage::new on two empty files, and an empty WAL.
StorageInit ==
    /\ bucket_lookup = << 0 >>
    /\ global_level = 0
    /\ bucket_count = 1
    /\ pages = << ZeroPage >>
    /\ status = "running"
    /\ last = NoCommand
    /\ prev = NoCommand
    /\ pre = [ bucket_lookup |-> << 0 >>, global_level |-> 0, bucket_count |-> 1,
               pages |-> << ZeroPage >> ]
    /\ shadow = [ k \in Keys |-> None ]
    /\ distinct_puts = TRUE
    /\ nops = 0
    /\ directory_file = << >>
    /\ buckets_header = [ i \in 1..BUCKET_INDEX_TYPE_BYTES |-> 0 ]
    /\ wal = [ id \in {} |-> << >> ]
    /\ begun = {}
    /\ last_tid = None
    /\ wal_pre = [ id \in {} |-> << >> ]
    /\ ended = [ id \in Tids |-> << >> ]

\* HashStorage::new on two empty files.
Init == StorageInit /\ FrontInit("none") /\ codec = NoCodec

\* The engine's variables take the fields of e.
SetEngine(e) ==
    /\ bucket_lookup' = e.bucket_lookup
    /\ global_level' = e.global_level
    /\ bucket_count' = e.bucket_count
    /\ pages' = e.pages

\* History of a command that came with transaction_id, one of at most max.
History(cmd, transaction_id, max) ==
    /\ nops < max
    /\ nops' = nops + 1
    /\ prev' = last
    /\ pre' = Engine
    /\ last' = cmd
    /\ last_tid' = transaction_id
    /\ wal_pre' = wal
    /\ UNCHANGED << front_vars, codec >>

\* A command of the engine: the files of the directory and the WAL stay.
Step(cmd) ==
    /\ status = "running"
    /\ History(cmd, None, MaxOps)
    /\ UNCHANGED << directory_file, buckets_header, wal, begun, ended >>

\* handle_cmd(StorageCommand::Put(key, value))
Put(key, value) ==
    LET r == put(Engine, CommandRecord(key, value))
    IN /\ Step([ op |-> "put", key |-> key, value |-> Some(value),
                 result |-> Some(r.result), iters |-> r.iters ])
       /\ SetEngine(r.e)
       /\ status' = IF r.result = "ok" THEN "running" ELSE "panicked"
       /\ shadow' = IF r.result = "ok" THEN [ shadow EXCEPT ![key] = Some(value) ]
                    ELSE shadow
       /\ distinct_puts' = (distinct_puts /\ shadow[key] = None)

\* handle_cmd(StorageCommand::Delete(key))
Delete(key) ==
    /\ Step([ op |-> "delete", key |-> key, value |-> None, result |-> Some("ok"),
              iters |-> 0 ])
    /\ SetEngine(delete(Engine, key))
    /\ shadow' = [ shadow EXCEPT ![key] = None ]
    /\ distinct_puts' = FALSE
    /\ UNCHANGED status

\* handle_cmd(StorageCommand::Get(key))
Get(key) ==
    /\ Step([ op |-> "get", key |-> key, value |-> None,
              result |-> Lookup(Engine, key), iters |-> 0 ])
    /\ UNCHANGED << bucket_lookup, global_level, bucket_count, pages, status,
                    shadow, distinct_puts >>

Next ==
    \/ \E key \in Keys, value \in Values : Put(key, value)
    \/ \E key \in Keys : Delete(key)
    \/ \E key \in Keys : Get(key)

Spec == Init /\ [][Next]_vars

\* The transaction_id a command can come with: none, or any id.
TidArgs == {None} \cup { Some(id) : id \in Tids }

\* The keys of the commands of SpecWal: two keys of one hash.
WalKeys == {"A", "B"}

\* history: shadow after the mutations of muts, all applied.
RECURSIVE shadow_apply(_, _)
shadow_apply(sh, muts) ==
    IF muts = << >> THEN sh
    ELSE shadow_apply([ sh EXCEPT ![Head(muts).key] = Head(muts).value ], Tail(muts))

\* execute_command(UserCommand::Put(key, value), transaction_id)
ExecPut(transaction_id, key, value) ==
    LET r == execute_mutation(Engine, wal, MutationPut(key, value), transaction_id)
    IN /\ status = "running"
       /\ History([ op |-> "put", key |-> key, value |-> Some(value),
                    result |-> Some(r.result), iters |-> 0 ], transaction_id, MaxOps)
       /\ SetEngine(r.e)
       /\ wal' = r.data
       /\ status' = IF r.result = "ok" THEN "running" ELSE "panicked"
       /\ shadow' = IF transaction_id = None /\ r.result = "ok"
                    THEN [ shadow EXCEPT ![key] = Some(value) ] ELSE shadow
       /\ distinct_puts' = (distinct_puts /\ (transaction_id # None \/ shadow[key] = None))
       /\ UNCHANGED << directory_file, buckets_header, begun, ended >>

\* execute_command(UserCommand::Delete(key), transaction_id)
ExecDelete(transaction_id, key) ==
    LET r == execute_mutation(Engine, wal, MutationDelete(key), transaction_id)
    IN /\ status = "running"
       /\ History([ op |-> "delete", key |-> key, value |-> None,
                    result |-> Some(r.result), iters |-> 0 ], transaction_id, MaxOps)
       /\ SetEngine(r.e)
       /\ wal' = r.data
       /\ status' = IF r.result = "ok" THEN "running" ELSE "panicked"
       /\ shadow' = IF transaction_id = None
                    THEN [ shadow EXCEPT ![key] = None ] ELSE shadow
       /\ distinct_puts' = (distinct_puts /\ transaction_id # None)
       /\ UNCHANGED << directory_file, buckets_header, begun, ended >>

\* execute_command(UserCommand::Get(key), transaction_id)
ExecGet(transaction_id, key) ==
    /\ status = "running"
    /\ History([ op |-> "get", key |-> key, value |-> None,
                 result |-> execute_get(Engine, wal, key, transaction_id),
                 iters |-> 0 ], transaction_id, MaxOps)
    /\ UNCHANGED << bucket_lookup, global_level, bucket_count, pages, status,
                    shadow, distinct_puts, directory_file, buckets_header,
                    wal, begun, ended >>

\* execute_command(UserCommand::Begin, transaction_id): Uuid::new_v4 gives
\* an id it has not given before.
ExecBegin(transaction_id) ==
    \E id \in Tids \ begun :
        /\ status = "running"
        /\ History([ op |-> "begin", key |-> "", value |-> None,
                     result |-> Some(id), iters |-> 0 ], transaction_id, MaxOps)
        /\ wal' = Wal_begin(wal, id)
        /\ begun' = begun \cup {id}
        /\ UNCHANGED << bucket_lookup, global_level, bucket_count, pages, status,
                        shadow, distinct_puts, directory_file, buckets_header,
                        ended >>

\* execute_command(UserCommand::Commit, transaction_id); iters of the
\* history is the number of mutations handle_cmd returned for.
ExecCommit(transaction_id) ==
    LET id == unwrap_or_empty(transaction_id)
        muts == Wal_retrieve_mutations(wal, id)
    IN /\ status = "running"
       /\ wal' = Wal_remove(wal, id)
       /\ IF muts = None
          THEN /\ History([ op |-> "commit", key |-> "", value |-> None,
                            result |-> Some("Not in a transaction"), iters |-> 0 ],
                          transaction_id, MaxOps)
               /\ UNCHANGED << bucket_lookup, global_level, bucket_count, pages,
                               status, shadow, distinct_puts, ended >>
          ELSE LET r == commit_loop(Engine, muts[1], 0)
               IN /\ History([ op |-> "commit", key |-> "", value |-> None,
                               result |-> Some(r.result), iters |-> r.applied ],
                             transaction_id, MaxOps)
                  /\ SetEngine(r.e)
                  /\ status' = IF r.result = "ok" THEN "running" ELSE "panicked"
                  /\ shadow' = shadow_apply(shadow, SubSeq(muts[1], 1, r.applied))
                  /\ distinct_puts' = (distinct_puts /\ muts[1] = << >>)
                  /\ ended' = [ ended EXCEPT ![id] = Append(@, "commit") ]
       /\ UNCHANGED << directory_file, buckets_header, begun >>

\* execute_command(UserCommand::Rollback, transaction_id)
ExecRollback(transaction_id) ==
    LET id == unwrap_or_empty(transaction_id)
        muts == Wal_retrieve_mutations(wal, id)
    IN /\ status = "running"
       /\ wal' = Wal_remove(wal, id)
       /\ History([ op |-> "rollback", key |-> "", value |-> None,
                    result |-> IF muts = None THEN Some("Not in a transaction")
                               ELSE Some("ok"),
                    iters |-> 0 ], transaction_id, MaxOps)
       /\ ended' = IF muts = None THEN ended
                   ELSE [ ended EXCEPT ![id] = Append(@, "rollback") ]
       /\ UNCHANGED << bucket_lookup, global_level, bucket_count, pages, status,
                       shadow, distinct_puts, directory_file, buckets_header,
                       begun >>

NextWal ==
    \/ \E t \in TidArgs, key \in WalKeys, value \in Values : ExecPut(t, key, value)
    \/ \E t \in TidArgs, key \in WalKeys : ExecDelete(t, key)
    \/ \E t \in TidArgs, key \in WalKeys : ExecGet(t, key)
    \/ \E t \in TidArgs : ExecBegin(t)
    \/ \E t \in TidArgs : ExecCommit(t)
    \/ \E t \in TidArgs : ExecRollback(t)

SpecWal == Init /\ [][NextWal]_vars

\* handle_cmd(StorageCommand::Flush): exit() saves the directory and the
\* bucket count; the engine stays as it is.
Exit ==
    /\ status = "running"
    /\ History([ op |-> "exit", key |-> "", value |-> None, result |-> Some("ok"),
                 iters |-> 0 ], None, MaxOps)
    /\ directory_file' = save_directory(bucket_lookup, directory_file)
    /\ buckets_header' = save_buckets_file(bucket_count)
    /\ UNCHANGED << bucket_lookup, global_level, bucket_count, pages, status,
                    shadow, distinct_puts, wal, begun, ended >>

\* The process ends, at a panic or at any other moment, and HashStorage::new
\* opens the two files again: the directory, the level and the bucket count
\* are the ones of the files.
Reopen ==
    LET d == load_directory(directory_file)
    IN /\ History([ op |-> "reopen", key |-> "", value |-> None,
                    result |-> Some(d.result), iters |-> 0 ], None, MaxOps)
       /\ IF d.result = "ok"
          THEN /\ bucket_lookup' = d.bucket_lookup
               /\ global_level' = d.global_level
               /\ bucket_count' = load_buckets_file(buckets_header)
               /\ status' = "running"
          ELSE /\ status' = "panicked"
               /\ UNCHANGED << bucket_lookup, global_level, bucket_count >>
       /\ UNCHANGED << pages, shadow, distinct_puts, directory_file,
                       buckets_header, wal, begun, ended >>

NextPersist ==
    \/ \E key \in Keys, value \in Values : Put(key, value)
    \/ \E key \in Keys : Delete(key)
    \/ \E key \in Keys : Get(key)
    \/ Exit
    \/ Reopen

SpecPersist == Init /\ [][NextPersist]_vars

\* ------------------------------------------------------------ command lines
\* A line as the lexer sees it: words of alphanumeric characters and
\* literals between double quotes.
Word(text) == [ kind |-> "word", text |-> text, value |-> None ]
Literal(value) == [ kind |-> "literal", text |-> "", value |-> Some(value) ]

\* Lexer::key_or_ident: a word is a keyword or an identifier.
key_or_ident(text) ==
    [ kind |-> IF text \in {"get", "GET", "put", "PUT", "delete", "DELETE",
                            "exit", "EXIT"}
               THEN "Keyword" ELSE "Ident",
      text |-> CASE text \in {"get", "GET"} -> "Get"
                 [] text \in {"put", "PUT"} -> "Put"
                 [] text \in {"delete", "DELETE"} -> "Delete"
                 [] text \in {"exit", "EXIT"} -> "Exit"
                 [] OTHER -> text,
      value |-> None ]

\* Lexer::lex: the tokens of a line.
lex(line) ==
    [ i \in 1..Len(line) |->
        IF line[i].kind = "literal"
        THEN [ kind |-> "Literal", text |-> "", value |-> line[i].value ]
        ELSE key_or_ident(line[i].text) ]

\* Ok(command) and Err(message) of the parser.
ParseOk(op, key, value) ==
    [ ok |-> TRUE, op |-> op, key |-> key, value |-> value, err |-> "" ]
ParseErr(msg) == [ ok |-> FALSE, op |-> "", key |-> "", value |-> None, err |-> msg ]

\* process_get_keyword and process_delete_keyword
process_ident_keyword(op, name, tokens) ==
    IF Len(tokens) < 2 \/ tokens[2].kind # "Ident"
    THEN ParseErr("Expected identifier after " \o name)
    ELSE IF Len(tokens) > 2 THEN ParseErr("Unexpected token after identifier")
    ELSE ParseOk(op, tokens[2].text, None)

\* process_put_keyword and process_put_keyword_with_key
process_put_keyword(tokens) ==
    IF Len(tokens) < 2 \/ tokens[2].kind # "Ident"
    THEN ParseErr("Expected identifier after PUT")
    ELSE IF Len(tokens) < 3 \/ tokens[3].kind # "Literal"
    THEN ParseErr("Expected literal after identifier")
    ELSE IF Len(tokens) > 3 THEN ParseErr("Unexpected token after literal")
    ELSE ParseOk("put", tokens[2].text, tokens[3].value)

\* parse_tokens
parse_tokens(tokens) ==
    IF tokens = << >> THEN ParseErr("Unexpected end of input")
    ELSE IF tokens[1].kind # "Keyword"
    THEN ParseErr("Expected keyword GET, PUT or DELETE")
    ELSE CASE tokens[1].text = "Get" -> process_ident_keyword("get", "GET", tokens)
           [] tokens[1].text = "Put" -> process_put_keyword(tokens)
           [] tokens[1].text = "Delete" ->
                  process_ident_keyword("delete", "DELETE", tokens)
           [] OTHER -> ParseOk("exit", "", None)

\* input.parse::<UserCommand>(): the commands of parse_tokens, and BEGIN,
\* COMMIT and ROLLBACK, each a line of one word.
parse_user_command(line) ==
    LET tokens == lex(line)
    IN IF Len(tokens) = 1 /\ tokens[1].kind = "Ident"
          /\ tokens[1].text \in {"BEGIN", "COMMIT", "ROLLBACK"}
       THEN ParseOk(CASE tokens[1].text = "BEGIN" -> "begin"
                      [] tokens[1].text = "COMMIT" -> "commit"
                      [] OTHER -> "rollback", "", None)
       ELSE parse_tokens(tokens)

\* Ok(CommandOutput) and Err(String) of execute_user_input.
OutputOk(kind, arg) == [ ok |-> TRUE, kind |-> kind, arg |-> arg ]
OutputErr(msg) == [ ok |-> FALSE, kind |-> "Err", arg |-> Some(msg) ]

\* handle_command_output_for_transaction_id: Begin(id) binds the session to
\* id, Commit and Rollback unbind it, any other output leaves it.
handle_command_output_for_transaction_id(output, t_id) ==
    CASE output.kind = "Begin" -> output.arg
      [] output.kind \in {"Commit", "Rollback"} -> None
      [] OTHER -> t_id

\* The lines of the clients of SpecFront.
LinePutA == << Word("PUT"), Word("A"), Literal(CHOOSE v \in Values : v.len = 4000) >>
LinePutC == << Word("PUT"), Word("C"), Literal(CHOOSE v \in Values : v.len = 2000) >>
LineGetA == << Word("GET"), Word("A") >>
LineBegin == << Word("BEGIN") >>
LineCommit == << Word("COMMIT") >>
LineMalformed == << Word("PUT"), Word("A") >>
FrontLines == { LinePutA, LinePutC, LineGetA, LineBegin, LineCommit, LineMalformed }

\* The lines of each source: the first one works in transactions, the second
\* connection of the server reads and writes beside it.
SourceLines(c) == IF c = "c1" THEN FrontLines ELSE { LinePutC, LineGetA }

\* ------------------------------------------- a request, from await to await
\* execute_user_input up to the first write of the engine: the parse, and of
\* execute_command what the WAL does and what the engine only reads.  muts is
\* what is left for the engine to apply, out the output if there is one
\* already; fresh is the id Uuid::new_v4 gives to a Begin.
exec_start(e, data, msg, fresh) ==
    LET cmd == parse_user_command(msg.line)
        tid == msg.transaction_id
        id == unwrap_or_empty(tid)
        r == [ data |-> data, muts |-> << >>, out |-> None, panic |-> FALSE,
               begun |-> {}, flush |-> FALSE ]
        m == IF cmd.op = "put" THEN MutationPut(cmd.key, cmd.value[1])
             ELSE MutationDelete(cmd.key)
    IN CASE ~cmd.ok -> [ r EXCEPT !.out = Some(OutputErr(cmd.err)) ]
         [] cmd.ok /\ cmd.op = "get" ->
              LET v == execute_get(e, data, cmd.key, tid)
              IN [ r EXCEPT !.out = Some(IF v # None THEN OutputOk("Found", v)
                                         ELSE OutputOk("NotFound", Some(cmd.key))) ]
         [] cmd.ok /\ cmd.op \in {"put", "delete"} /\ tid # None ->
              LET w == Wal_mutate(data, tid[1], m)
              IN IF w.result = "ok"
                 THEN [ r EXCEPT !.data = w.data,
                                 !.out = Some(OutputOk(IF cmd.op = "put" THEN "Put"
                                                       ELSE "Delete", None)) ]
                 ELSE [ r EXCEPT !.panic = TRUE ]
         [] cmd.ok /\ cmd.op \in {"put", "delete"} /\ tid = None ->
              [ r EXCEPT !.muts = << m >> ]
         [] cmd.ok /\ cmd.op = "exit" ->
              [ r EXCEPT !.flush = TRUE, !.out = Some(OutputOk("Exit", None)) ]
         [] cmd.ok /\ cmd.op = "begin" ->
              [ r EXCEPT !.data = Wal_begin(data, fresh), !.begun = {fresh},
                         !.out = Some(OutputOk("Begin", Some(fresh))) ]
         [] cmd.ok /\ cmd.op = "commit" ->
              LET muts == Wal_retrieve_mutations(data, id)
              IN IF muts = None
                 THEN [ r EXCEPT !.out = Some(OutputErr("Not in a transaction")) ]
                 ELSE [ r EXCEPT !.data = Wal_remove(data, id), !.muts = muts[1],
                                 !.out = IF muts[1] = << >>
                                         THEN Some(OutputOk("Commit", None))
                                         ELSE None ]
         [] cmd.ok /\ cmd.op = "rollback" ->
              IF Wal_retrieve_mutations(data, id) = None
              THEN [ r EXCEPT !.out = Some(OutputErr("Not in a transaction")) ]
              ELSE [ r EXCEPT !.data = Wal_remove(data, id),
                              !.out = Some(OutputOk("Rollback", None)) ]

\* The output of a request whose mutations are all applied.
exec_output(msg) ==
    LET cmd == parse_user_command(msg.line)
    IN OutputOk(CASE cmd.op = "put" -> "Put"
                  [] cmd.op = "delete" -> "Delete"
                  [] OTHER -> "Commit", None)

\* The engine from one await to the next while a request is applied: a
\* delete, or one iteration of the loop of put for the mutation at the head
\* of t.muts.  t.put is the bucket the loop holds in memory.
exec_step(e, t) ==
    LET m == Head(t.muts)
        record == CommandRecord(m.key, m.value[1])
        bucket == IF t.put # None THEN t.put[1]
                  ELSE read_from_file(e.pages,
                           e.bucket_lookup[hash_to_remainder(e, record.hash) + 1])
    IN IF m.op = "delete"
       THEN [ e |-> delete(e, m.key), muts |-> Tail(t.muts), put |-> None,
              applied |-> t.applied + 1, panic |-> FALSE ]
       ELSE IF put_fits(bucket, record)
       THEN [ e |-> [ e EXCEPT !.pages =
                        save_to_file(e.pages,
                            [ bucket EXCEPT !.records = put_records(bucket.records, record) ]) ],
              muts |-> Tail(t.muts), put |-> None, applied |-> t.applied + 1,
              panic |-> FALSE ]
       ELSE IF bucket.level + 1 >= HashBits
       THEN [ e |-> split_overflow(e, bucket, record), muts |-> t.muts,
              put |-> None, applied |-> t.applied, panic |-> TRUE ]
       ELSE LET s == split_step(e, bucket, record)
            IN [ e |-> s.e, muts |-> t.muts, put |-> Some(s.bucket),
                 applied |-> t.applied, panic |-> FALSE ]

\* The engine a request leaves behind when its future is dropped at one of
\* the awaits of its next step: before anything is written, or, in a split,
\* behind save_to_file of the original bucket or of both buckets, with
\* bucket_count and the directory as they were (lines 371-377).
cancel_engines(e, t) ==
    LET m == Head(t.muts)
        record == CommandRecord(m.key, m.value[1])
        bucket == IF t.put # None THEN t.put[1]
                  ELSE read_from_file(e.pages,
                           e.bucket_lookup[hash_to_remainder(e, record.hash) + 1])
    IN IF m.op = "delete" \/ put_fits(bucket, record) \/ bucket.level + 1 >= HashBits
       THEN { e }
       ELSE LET s == split_step(e, bucket, record)
                og == read_from_file(s.e.pages, bucket.bucket_index)
            IN { e,
                 [ e EXCEPT !.pages = save_to_file(e.pages, og) ],
                 [ e EXCEPT !.pages = s.e.pages ] }

\* --------------------------------------------------------------- front-ends
\* The number of lines the clients write, over all sources.
MaxLines == 3

engine_vars == << bucket_lookup, global_level, bucket_count, pages >>
file_vars == << directory_file, buckets_header >>

\* The lines read so far, and the BEGIN lines among them.
Written == Len(arrived["c1"]) + Len(arrived["c2"])
WrittenBegins ==
    Cardinality({ << c, i >> \in Conns \X (1..MaxLines) :
                    i <= Len(arrived[c]) /\ arrived[c][i] = LineBegin })

\* A line that may come next: the lines are bounded in number, the BEGIN
\* lines by the ids there are.
MayCome(line) ==
    /\ Written < MaxLines
    /\ line = LineBegin => WrittenBegins < Cardinality(Tids)

\* What the history keeps of a request that has returned its output.
ReplyEntry(msg, out, changed) ==
    [ line |-> msg.line, transaction_id |-> msg.transaction_id, out |-> out,
      changed |-> changed ]

\* The output of a request is there.  Server: cb.send(output).  Stdin pump:
\* the session id is updated for an Ok, the output is printed.  REPL: the
\* same for an Ok, and the loop goes on unless the output is Exit; for an Err
\* the message is printed and inner_loop returns true: "Goodbye!" and
\* std::process::exit(0).
Finish(msg, out, changed) ==
    /\ replies' = [ replies EXCEPT ![msg.conn] = Append(@, ReplyEntry(msg, out, changed)) ]
    /\ resp' = IF mode = "server" THEN [ resp EXCEPT ![msg.conn] = Some(out) ] ELSE resp
    /\ conn' = IF mode # "server" /\ out.ok
               THEN [ conn EXCEPT ![msg.conn].t_id =
                        handle_command_output_for_transaction_id(out, @) ]
               ELSE conn
    /\ IF mode = "repl" /\ (~out.ok \/ out.kind = "Exit")
       THEN task' = IdleTask("exited") /\ status' = "exited"
       ELSE /\ task' = IdleTask(IF mode = "stdin" THEN "recv" ELSE "select")
            /\ UNCHANGED status

\* execute_user_input starts on msg and runs to its first await.
TaskStart(msg) ==
    \E fresh \in (IF Tids \ begun = {} THEN {""} ELSE Tids \ begun) :
        LET st == exec_start(Engine, wal, msg, fresh)
        IN /\ status = "running"
           /\ wal' = st.data
           /\ begun' = begun \cup st.begun
           /\ IF st.flush
              THEN /\ directory_file' = save_directory(bucket_lookup, directory_file)
                   /\ buckets_header' = save_buckets_file(bucket_count)
              ELSE UNCHANGED file_vars
           /\ IF st.panic
              THEN /\ task' = [ IdleTask("dead") EXCEPT !.msg = msg ]
                   /\ status' = "panicked"
                   /\ UNCHANGED << resp, replies, conn >>
              ELSE IF st.out # None
              THEN Finish(msg, st.out[1], st.data # wal)
              ELSE /\ task' = [ pc |-> "exec", msg |-> msg, muts |-> st.muts,
                                put |-> None, applied |-> 0,
                                start |-> Some([ e |-> Engine, data |-> wal ]) ]
                   /\ UNCHANGED << resp, replies, conn, status >>
           /\ UNCHANGED engine_vars
           /\ UNCHANGED << hist_vars, codec >>

\* The request at hand goes on from one await to the next, in any front-end.
TaskStep ==
    LET r == exec_step(Engine, task)
    IN /\ mode \in Modes
       /\ status = "running"
       /\ task.pc = "exec"
       /\ SetEngine(r.e)
       /\ IF r.panic
          THEN /\ task' = [ task EXCEPT !.pc = "dead" ]
               /\ status' = "panicked"
               /\ UNCHANGED << resp, replies, conn >>
          ELSE IF r.muts = << >>
          THEN Finish(task.msg, exec_output(task.msg), TRUE)
          ELSE /\ task' = [ task EXCEPT !.muts = r.muts, !.put = r.put,
                                        !.applied = r.applied ]
               /\ UNCHANGED << resp, replies, conn, status >>
       /\ UNCHANGED << wal, begun, file_vars, hist_vars, codec >>
       /\ UNCHANGED << mode, arrived, closed, chan, sig, main >>

\* execute_command(UserCommand::Exit, None) behind the loop of the task; the
\* REPL returns from inner_loop and run_repl exits the process.
Flush ==
    /\ mode \in Modes
    /\ status = "running"
    /\ task.pc = "flush"
    /\ directory_file' = save_directory(bucket_lookup, directory_file)
    /\ buckets_header' = save_buckets_file(bucket_count)
    /\ task' = [ task EXCEPT !.pc = "done" ]
    /\ status' = IF mode = "repl" THEN "exited" ELSE status
    /\ UNCHANGED << engine_vars, wal, begun, hist_vars, codec >>
    /\ UNCHANGED << mode, arrived, closed, conn, chan, resp, sig, main, replies >>

\* SIGINT (or SIGTERM, in the server) arrives: the signal task sends on its
\* oneshot channels.  sig.pending keeps the requests that were in the command
\* channel of the server then and that the engine task has not taken since.
Signal ==
    /\ mode \in Modes
    /\ sig.state = "none"
    /\ sig' = [ state |-> "sent", pending |-> IF mode = "server" THEN chan ELSE << >> ]
    /\ UNCHANGED << engine_vars, status, file_vars, wal, begun, hist_vars, codec >>
    /\ UNCHANGED << mode, arrived, closed, conn, chan, task, resp, main, replies >>

\* ------------------------------------------------------------------ server
\* run_server: listener.accept() gives a connection, handle_socket is spawned.
Accept(c) ==
    /\ mode = "server"
    /\ status = "running"
    /\ main = "accepting"
    /\ conn[c].pc = "none"
    /\ conn' = [ conn EXCEPT ![c].pc = "read" ]
    /\ UNCHANGED << engine_vars, status, file_vars, wal, begun, hist_vars, codec >>
    /\ UNCHANGED << mode, arrived, closed, chan, task, resp, sig, main, replies >>

\* run_server: the select! of the accept loop takes the branch of breaklooprc.
MainBreak ==
    /\ mode = "server"
    /\ status = "running"
    /\ main = "accepting"
    /\ sig.state = "sent"
    /\ main' = "joining"
    /\ UNCHANGED << engine_vars, status, file_vars, wal, begun, hist_vars, codec >>
    /\ UNCHANGED << mode, arrived, closed, conn, chan, task, resp, sig, replies >>

\* handle_socket is at lines.next_line(), ready to send what it reads.
conn_can_submit_always(s) == s.pc \in {"read", "wait"}
conn_can_submit(s) == s.pc = "read"

\* handle_socket: a line is read and sent to the engine task with the id of
\* the session; the task then awaits the callback.
ConnSubmit(c, line) ==
    /\ mode = "server"
    /\ status = "running"
    /\ conn_can_submit(conn[c])
    /\ MayCome(line)
    /\ task.pc # "done"
    /\ arrived' = [ arrived EXCEPT ![c] = Append(@, line) ]
    /\ chan' = Append(chan, [ conn |-> c, line |-> line,
                              transaction_id |-> conn[c].t_id ])
    /\ conn' = [ conn EXCEPT ![c].pc = "wait" ]
    /\ UNCHANGED << engine_vars, status, file_vars, wal, begun, hist_vars, codec >>
    /\ UNCHANGED << mode, closed, task, resp, sig, main, replies >>

\* handle_socket: the callback has the output; the session id follows an Ok
\* and the output is written to the socket.
ConnRespond(c) ==
    /\ mode = "server"
    /\ status = "running"
    /\ conn[c].pc = "wait"
    /\ resp[c] # None
    /\ conn' = [ conn EXCEPT ![c].pc = "read",
                             ![c].t_id = IF resp[c][1].ok
                                         THEN handle_command_output_for_transaction_id(resp[c][1], @)
                                         ELSE @ ]
    /\ resp' = [ resp EXCEPT ![c] = None ]
    /\ UNCHANGED << engine_vars, status, file_vars, wal, begun, hist_vars, codec >>
    /\ UNCHANGED << mode, arrived, closed, chan, task, sig, main, replies >>

\* handle_socket: next_line gives None, the task of the connection ends.
ConnEnd(c) ==
    /\ mode = "server"
    /\ status = "running"
    /\ conn[c].pc = "read"
    /\ closed' = closed \cup {c}
    /\ conn' = [ conn EXCEPT ![c].pc = "ended" ]
    /\ UNCHANGED << engine_vars, status, file_vars, wal, begun, hist_vars, codec >>
    /\ UNCHANGED << mode, arrived, chan, task, resp, sig, main, replies >>

\* handle_socket: the engine task is gone, with the receiver and the
\* callbacks it held; send(..).await.unwrap() or res.await.unwrap() panics.
ConnFail(c) ==
    /\ mode = "server"
    /\ status = "running"
    /\ task.pc = "done"
    /\ \/ conn[c].pc = "wait" /\ resp[c] = None /\ UNCHANGED arrived
       \/ /\ conn[c].pc = "read"
          /\ \E line \in SourceLines(c) :
                /\ MayCome(line)
                /\ arrived' = [ arrived EXCEPT ![c] = Append(@, line) ]
    /\ conn' = [ conn EXCEPT ![c].pc = "dead" ]
    /\ UNCHANGED << engine_vars, status, file_vars, wal, begun, hist_vars, codec >>
    /\ UNCHANGED << mode, closed, chan, task, resp, sig, main, replies >>

\* receive_line_single_thread is at its select!, no request at hand.
engine_polls_always(t) == t.pc \in {"select", "exec"}
engine_polls(t) == t.pc = "select"

\* receive_line_single_thread: the select! takes the branch of r.recv() and
\* the body starts on the message.
EngineRecv ==
    /\ mode = "server"
    /\ engine_polls(task)
    /\ chan # << >>
    /\ chan' = Tail(chan)
    /\ TaskStart(Head(chan))
    /\ sig' = [ sig EXCEPT !.pending = IF @ = << >> THEN @ ELSE Tail(@) ]
    /\ UNCHANGED << mode, arrived, closed, main >>

\* receive_line_single_thread: the select! takes the branch of ctrlc.
EngineBreak ==
    /\ mode = "server"
    /\ status = "running"
    /\ task.pc = "select"
    /\ sig.state = "sent"
    /\ task' = [ task EXCEPT !.pc = "flush" ]
    /\ UNCHANGED << engine_vars, status, file_vars, wal, begun, hist_vars, codec >>
    /\ UNCHANGED << mode, arrived, closed, conn, chan, resp, sig, main, replies >>

\* run_server: engine_task.await returns and the process ends.
ServerExit ==
    /\ mode = "server"
    /\ status = "running"
    /\ main = "joining"
    /\ task.pc = "done"
    /\ status' = "exited"
    /\ UNCHANGED << engine_vars, file_vars, wal, begun, hist_vars, front_vars, codec >>

\* -------------------------------------------------------------- stdin pump
\* The line of the standard input as a request of the one session.
StdinMsg(line) == [ conn |-> "c1", line |-> line, transaction_id |-> conn["c1"].t_id ]

\* read_line_from_stdin: a line is read and sent to the processing task.
StdinRead(line) ==
    /\ mode = "stdin"
    /\ status = "running"
    /\ conn["c1"].pc = "read"
    /\ MayCome(line)
    /\ task.pc # "done"
    /\ arrived' = [ arrived EXCEPT !["c1"] = Append(@, line) ]
    /\ chan' = Append(chan, [ NoMsg EXCEPT !.conn = "c1", !.line = line ])
    /\ UNCHANGED << engine_vars, status, file_vars, wal, begun, hist_vars, codec >>
    /\ UNCHANGED << mode, closed, conn, task, resp, sig, main, replies >>

\* read_line_from_stdin: the input has ended, the task returns and drops the
\* sender.
StdinReadEnd ==
    /\ mode = "stdin"
    /\ status = "running"
    /\ conn["c1"].pc = "read"
    /\ closed' = closed \cup {"c1"}
    /\ conn' = [ conn EXCEPT !["c1"].pc = "ended" ]
    /\ UNCHANGED << engine_vars, status, file_vars, wal, begun, hist_vars, codec >>
    /\ UNCHANGED << mode, arrived, chan, task, resp, sig, main, replies >>

\* read_line_from_stdin: the processing task has returned and dropped the
\* receiver; send(line).await.unwrap() panics and try_join!(..).unwrap() with
\* it.
StdinReadFail(line) ==
    /\ mode = "stdin"
    /\ status = "running"
    /\ conn["c1"].pc = "read"
    /\ MayCome(line)
    /\ task.pc = "done"
    /\ arrived' = [ arrived EXCEPT !["c1"] = Append(@, line) ]
    /\ conn' = [ conn EXCEPT !["c1"].pc = "dead" ]
    /\ status' = "aborted"
    /\ UNCHANGED << engine_vars, file_vars, wal, begun, hist_vars, codec >>
    /\ UNCHANGED << mode, closed, chan, task, resp, sig, main, replies >>

\* process_lines_from_stdin: recv gives a line and the select! polls the
\* future of execute_user_input.
StdinRecv ==
    /\ mode = "stdin"
    /\ task.pc = "recv"
    /\ chan # << >>
    /\ chan' = Tail(chan)
    /\ TaskStart(StdinMsg(Head(chan).line))
    /\ UNCHANGED << mode, arrived, closed, sig, main >>

\* process_lines_from_stdin: recv gives a line and the select! takes the
\* branch of the signal before the line is looked at.
StdinDrop ==
    /\ mode = "stdin"
    /\ status = "running"
    /\ task.pc = "recv"
    /\ chan # << >>
    /\ sig.state = "sent"
    /\ chan' = Tail(chan)
    /\ task' = [ task EXCEPT !.pc = "flush" ]
    /\ UNCHANGED << engine_vars, status, file_vars, wal, begun, hist_vars, codec >>
    /\ UNCHANGED << mode, arrived, closed, conn, resp, sig, main, replies >>

\* process_lines_from_stdin: the future of execute_user_input is pending and
\* the select! takes the branch of the signal; the future is dropped where it
\* is.
StdinCancel ==
    /\ mode = "stdin"
    /\ status = "running"
    /\ task.pc = "exec"
    /\ sig.state = "sent"
    /\ task' = [ task EXCEPT !.pc = "flush" ]
    /\ \E e \in cancel_engines(Engine, task) : SetEngine(e)
    /\ UNCHANGED << status, file_vars, wal, begun, hist_vars, codec >>
    /\ UNCHANGED << mode, arrived, closed, conn, chan, resp, sig, main, replies >>

\* process_lines_from_stdin: recv gives None, the sender is gone.
StdinEof ==
    /\ mode = "stdin"
    /\ status = "running"
    /\ task.pc = "recv"
    /\ chan = << >>
    /\ conn["c1"].pc = "ended"
    /\ task' = [ task EXCEPT !.pc = "flush" ]
    /\ UNCHANGED << engine_vars, status, file_vars, wal, begun, hist_vars, codec >>
    /\ UNCHANGED << mode, arrived, closed, conn, chan, resp, sig, main, replies >>

\* process_from_stdin: both tasks have returned, try_join! is Ok.
StdinExit ==
    /\ mode = "stdin"
    /\ status = "running"
    /\ task.pc = "done"
    /\ conn["c1"].pc = "ended"
    /\ status' = "exited"
    /\ UNCHANGED << engine_vars, file_vars, wal, begun, hist_vars, front_vars, codec >>

\* -------------------------------------------------------------------- REPL
\* inner_loop: the select! takes the branch of next_line with a line.
ReplLine(line) ==
    /\ mode = "repl"
    /\ task.pc = "select"
    /\ MayCome(line)
    /\ arrived' = [ arrived EXCEPT !["c1"] = Append(@, line) ]
    /\ TaskStart(StdinMsg(line))
    /\ UNCHANGED << mode, closed, chan, sig, main >>

\* inner_loop: the select! takes the branch of the signal; Exit is executed,
\* inner_loop returns true.
ReplSignal ==
    /\ mode = "repl"
    /\ status = "running"
    /\ task.pc = "select"
    /\ sig.state = "sent"
    /\ task' = [ task EXCEPT !.pc = "flush" ]
    /\ UNCHANGED << engine_vars, status, file_vars, wal, begun, hist_vars, codec >>
    /\ UNCHANGED << mode, arrived, closed, conn, chan, resp, sig, main, replies >>

\* inner_loop: next_line gives None; inner_loop returns true, run_repl prints
\* "Goodbye!" and exits.
ReplEof ==
    /\ mode = "repl"
    /\ status = "running"
    /\ task.pc = "select"
    /\ closed' = closed \cup {"c1"}
    /\ task' = [ task EXCEPT !.pc = "exited" ]
    /\ status' = "exited"
    /\ UNCHANGED << engine_vars, file_vars, wal, begun, hist_vars, codec >>
    /\ UNCHANGED << mode, arrived, conn, chan, resp, sig, main, replies >>

\* ------------------------------------------------------- the three together
\* The process is started as the server, as the stdin pump or as the REPL.
InitFront == StorageInit /\ codec = NoCodec /\ \E m \in Modes : FrontInit(m)

ServerNext ==
    \/ \E c \in Conns : Accept(c)
    \/ \E c \in Conns : \E line \in SourceLines(c) : ConnSubmit(c, line)
    \/ \E c \in Conns : ConnRespond(c)
    \/ \E c \in Conns : ConnEnd(c)
    \/ \E c \in Conns : ConnFail(c)
    \/ EngineRecv
    \/ EngineBreak
    \/ MainBreak
    \/ ServerExit

StdinNext ==
    \/ \E line \in FrontLines : StdinRead(line)
    \/ StdinReadEnd
    \/ \E line \in FrontLines : StdinReadFail(line)
    \/ StdinRecv
    \/ StdinDrop
    \/ StdinCancel
    \/ StdinEof
    \/ StdinExit

ReplNext ==
    \/ \E line \in FrontLines : ReplLine(line)
    \/ ReplSignal
    \/ ReplEof

\* What the process does, and the signal that comes to it.
ProgramNext == ServerNext \/ StdinNext \/ ReplNext \/ TaskStep \/ Flush

NextFront == ProgramNext \/ Signal

SpecFront == InitFront /\ [][NextFront]_vars

\* The steps that need nothing from outside, by the task that takes them: the
\* task that owns the engine, and the main task.  The runtime polls a task
\* that can go on; a line, the end of the input, a connection and the signal
\* come when they come.
EngineTask ==
    \/ EngineRecv \/ EngineBreak
    \/ StdinRecv \/ StdinDrop \/ StdinCancel \/ StdinEof
    \/ ReplSignal
    \/ TaskStep \/ Flush
MainTask == MainBreak \/ ServerExit \/ StdinExit

FairSpecFront ==
    /\ SpecFront
    /\ WF_vars(EngineTask)
    /\ WF_vars(MainTask)
    /\ \A c \in Conns : WF_vars(ConnRespond(c))

\* ------------------------------------------------ records and pages as bytes
\* The number of records pushed to the bucket that is saved and read.
MaxRecords == 2

RECORD_HEADER == 1

\* `len() as RecordKeyLength`, `as RecordValueLength`: a cast to u16.
as_u16(n) == n % 65536

\* vec![byte; len], [byte; len]
Fill(byte, len) == [ i \in 1..len |-> byte ]

\* A record with its key and its value as bytes.
ByteRecord(hash, key, value) == [ hash |-> hash, key |-> key, value |-> value ]

\* impl ByteLength for Record
Record_byte_len(r) ==
    RECORD_HEADER_BYTES + HASH_BYTES + RECORD_KEY_HEADER_BYTES + Len(r.key)
        + RECORD_VALUE_HEADER_BYTES + Len(r.value)

\* impl IntoBytes for Record
Record_into_bytes_no_key_header(r) ==
    << RECORD_HEADER >> \o to_le_bytes(r.hash, HASH_BYTES)
        \o r.key
        \o to_le_bytes(as_u16(Len(r.value)), RECORD_VALUE_HEADER_BYTES) \o r.value
Record_into_bytes(r) ==
    << RECORD_HEADER >> \o to_le_bytes(r.hash, HASH_BYTES)
        \o to_le_bytes(as_u16(Len(r.key)), RECORD_KEY_HEADER_BYTES) \o r.key
        \o to_le_bytes(as_u16(Len(r.value)), RECORD_VALUE_HEADER_BYTES) \o r.value

\* Iterator::take(n).collect() and what the iterator has left behind it.
take(bytes, n) == SubSeq(bytes, 1, IF n < Len(bytes) THEN n ELSE Len(bytes))
drop(bytes, n) == SubSeq(bytes, n + 1, Len(bytes))

\* impl ParseFromBytes for Record: "ok" with the record and the rest of the
\* bytes, "err" for a header that is not RECORD_HEADER, "panic" where
\* take_bytes_from_iterator unwraps the end of the bytes.
Record_from_bytes(bytes) ==
    LET fail(r) == [ result |-> r, record |-> ByteRecord(0, << >>, << >>), rest |-> << >> ]
        b1 == drop(bytes, RECORD_HEADER_BYTES)
        b2 == drop(b1, HASH_BYTES)
        b3 == drop(b2, RECORD_KEY_HEADER_BYTES)
        key_len == from_le_bytes(take(b2, RECORD_KEY_HEADER_BYTES))
        b4 == drop(b3, IF key_len < Len(b3) THEN key_len ELSE Len(b3))
        b5 == drop(b4, RECORD_VALUE_HEADER_BYTES)
        value_len == from_le_bytes(take(b4, RECORD_VALUE_HEADER_BYTES))
    IN IF Len(bytes) < RECORD_HEADER_BYTES THEN fail("panic")
       ELSE IF from_le_bytes(take(bytes, RECORD_HEADER_BYTES)) # RECORD_HEADER THEN fail("err")
       ELSE IF Len(b1) < HASH_BYTES THEN fail("panic")
       ELSE IF Len(b2) < RECORD_KEY_HEADER_BYTES THEN fail("panic")
       ELSE IF Len(b4) < RECORD_VALUE_HEADER_BYTES THEN fail("panic")
       ELSE [ result |-> "ok",
              record |-> ByteRecord(from_le_bytes(take(b1, HASH_BYTES)),
                                    take(b3, key_len), take(b5, value_len)),
              rest |-> drop(b5, IF value_len < Len(b5) THEN value_len ELSE Len(b5)) ]

\* Bucket::update_remaining_byte_count; usize, the subtraction panics below 0.
RECURSIVE Records_byte_len(_)
Records_byte_len(records) ==
    IF records = << >> THEN 0
    ELSE Record_byte_len(Head(records)) + Records_byte_len(Tail(records))
Bucket_remaining(records) == PAGE_BYTES - BUCKET_HEADER_BYTES - Records_byte_len(records)

\* impl ParseFromBytes for Bucket, the loop over the page behind the level:
\* bytes of 0 are skipped, at any other byte a record is parsed and unwrapped.
RECURSIVE page_records(_, _)
page_records(page, i) ==
    IF SubSeq(page, i, Len(page)) = Fill(0, Len(page) - i + 1)
    THEN [ result |-> "ok", records |-> << >> ]
    ELSE LET first == CHOOSE j \in i..Len(page) :
                          page[j] # 0 /\ \A k \in i..(j - 1) : page[k] = 0
             r == Record_from_bytes(SubSeq(page, first, Len(page)))
             more == page_records(page, Len(page) - Len(r.rest) + 1)
         IN IF r.result # "ok" THEN [ result |-> "panic", records |-> << >> ]
            ELSE [ result |-> more.result,
                   records |-> IF more.result = "ok" THEN << r.record >> \o more.records
                               ELSE << >> ]

\* impl ParseFromBytes for Bucket
Bucket_from_bytes(page, bucket_index) ==
    LET rs == page_records(page, BUCKET_LEVEL_BYTES + 1)
    IN IF rs.result # "ok" THEN [ result |-> "panic" ]
       ELSE [ result |-> "ok", bucket_index |-> bucket_index,
              level |-> from_le_bytes(take(page, BUCKET_LEVEL_BYTES)),
              records |-> rs.records,
              remaining_byte_space |-> Bucket_remaining(rs.records) ]

\* The records of a bucket one behind the other, as save_to_file lays them
\* out behind the level.
RECURSIVE records_bytes(_)
records_bytes(records) ==
    IF records = << >> THEN << >>
    ELSE Record_into_bytes(Head(records)) \o records_bytes(Tail(records))

\* seek(Start(offset)) and write_all(buf): the file grows to hold the bytes,
\* a hole before them reads as 0.
write_at(file, offset, buf) ==
    take(file, offset) \o Fill(0, offset - Len(take(file, offset)))
        \o buf \o drop(file, offset + Len(buf))

\* The offset of the page of a bucket in the buckets file.
page_offset(bucket_index) == BUCKET_INDEX_TYPE_BYTES + bucket_index * PAGE_BYTES

\* Bucket::save_to_file: a page of zeroes, the level at its head, the records
\* behind it; `buf[i] = ..` panics behind the end of the page.
Bucket_save_to_file_at_zero(bucket, file) ==
    LET body == << bucket.level >> \o records_bytes(bucket.records)
        buf == body \o Fill(0, PAGE_BYTES - Len(body))
    IN IF Len(body) > PAGE_BYTES THEN [ result |-> "panic", file |-> file ]
       ELSE [ result |-> "ok", file |-> write_at(file, page_offset(0), buf) ]
Bucket_save_to_file(bucket, file) ==
    LET body == << bucket.level >> \o records_bytes(bucket.records)
        buf == body \o Fill(0, PAGE_BYTES - Len(body))
    IN IF Len(body) > PAGE_BYTES THEN [ result |-> "panic", file |-> file ]
       ELSE [ result |-> "ok",
              file |-> write_at(file, page_offset(bucket.bucket_index), buf) ]

\* Bucket::read_from_file: read_exact of a page, unwrapped.
Bucket_read_from_file(file, bucket_index) ==
    IF Len(file) < page_offset(bucket_index) + PAGE_BYTES THEN [ result |-> "panic" ]
    ELSE Bucket_from_bytes(SubSeq(file, page_offset(bucket_index) + 1,
                                  page_offset(bucket_index) + PAGE_BYTES),
                           bucket_index)

\* The records of the codec checks: the one of the test into_and_from_bytes,
\* one of an empty key and an empty value, one of zeroes, one that fills a
\* page alone, its value ending in zeroes, and one that fills a page together
\* with the first.
CodecRecords ==
    { ByteRecord(14, << 24, 21, 56, 0 >>, << 25, 236, 36, 46 >>),
      ByteRecord(2, << >>, << >>),
      ByteRecord(0, << 0 >>, << 0, 0 >>),
      ByteRecord(2147483647, << 3 >>,
                 << 27 >> \o Fill(0, PAGE_BYTES - BUCKET_HEADER_BYTES - 15)),
      ByteRecord(6, << 1 >>, Fill(200, PAGE_BYTES - BUCKET_HEADER_BYTES - 35)) }

\* A bucket in memory with no records, as the tests build one.
EmptyBucket(bucket_index, level) ==
    [ bucket_index |-> bucket_index, level |-> level, records |-> << >>,
      remaining_byte_space |-> Bucket_remaining(<< >>) ]

\* A record is pushed to the bucket in memory, as put does when it fits, and
\* r.clone().into_bytes() gives its bytes.
CodecPush(r) ==
    /\ codec.bucket # None
    /\ Len(codec.bucket[1].records) < MaxRecords
    /\ Record_byte_len(r) <= codec.bucket[1].remaining_byte_space
    /\ codec' = [ codec EXCEPT !.bucket =
                    Some([ codec.bucket[1] EXCEPT
                             !.records = Append(@, r),
                             !.remaining_byte_space = Bucket_remaining(Append(codec.bucket[1].records, r)) ]),
                               !.bytes = Record_into_bytes(r),
                               !.parsed = None ]
    /\ UNCHANGED << engine_vars, status, file_vars, wal, begun, hist_vars, front_vars >>

\* Record::from_bytes(bytes.iter(), ())
CodecParse ==
    /\ codec.bytes # << >>
    /\ codec.parsed = None
    /\ codec' = [ codec EXCEPT !.parsed = Some(Record_from_bytes(codec.bytes)) ]
    /\ UNCHANGED << engine_vars, status, file_vars, wal, begun, hist_vars, front_vars >>

\* bucket.save_to_file(&mut file)
CodecSave ==
    /\ codec.bucket # None
    /\ codec' = [ codec EXCEPT !.file = Bucket_save_to_file(codec.bucket[1], codec.file).file,
                               !.saved = codec.bucket,
                               !.back = None ]
    /\ UNCHANGED << engine_vars, status, file_vars, wal, begun, hist_vars, front_vars >>

\* Bucket::read_from_file(&mut file, bucket_index)
CodecRead ==
    /\ codec.saved # None
    /\ codec.back = None
    /\ codec' = [ codec EXCEPT !.back =
                    Some(Bucket_read_from_file(codec.file, codec.saved[1].bucket_index)) ]
    /\ UNCHANGED << engine_vars, status, file_vars, wal, begun, hist_vars, front_vars >>

\* A bucket of index 0 or 1 at some level, and an empty file.
InitCodec ==
    /\ StorageInit
    /\ FrontInit("none")
    /\ \E bucket_index \in {0, 1}, level \in {0, 1, 255} :
          codec = [ NoCodec EXCEPT !.bucket = Some(EmptyBucket(bucket_index, level)) ]

NextCodec ==
    \/ \E r \in CodecRecords : CodecPush(r)
    \/ CodecParse
    \/ CodecSave
    \/ CodecRead

SpecCodec == InitCodec /\ [][NextCodec]_vars

\* ----------------------------------------------------------------- claims
\* The key and the value of the record are within the maximum of a record
\* in an empty bucket (byte_len(record) <= PAGE_BYTES - BUCKET_HEADER_BYTES).
FitsEmptyPage(record) ==
    KeyLen(record.key) + record.value.len <= MAX_RECORD_KEY_VALUE_BYTES

\* The record of the put executed last (last.op = "put").
LastRecord == CommandRecord(last.key, last.value[1])

\* The buckets the directory of e points to.
DirectoryBuckets(e) == { e.bucket_lookup[i] : i \in 1..Len(e.bucket_lookup) }

\* The places <<bucket, position>> of the records of a key in the given buckets.
PlacesOf(e, buckets, key) ==
    { p \in UNION { { <<b, i>> : i \in 1..Len(e.pages[b + 1].records) } : b \in buckets } :
        e.pages[p[1] + 1].records[p[2]].key = key }

\* C1: from the empty database, after puts of pairwise distinct keys (records
\* that fit a page, hashes equal or not), every put has returned and get of
\* every key put returns the value put, get of every other key nothing.
C1_RoundTrip ==
    (distinct_puts /\ last.op = "put" /\ FitsEmptyPage(LastRecord))
        => /\ last.result = Some("ok")
           /\ \A k \in Keys : Lookup(Engine, k) = shadow[k]

\* C1, as far as the code goes: while every put has returned, get answers
\* with the value put.
C1_RoundTripOfReturnedPuts ==
    (distinct_puts /\ status = "running")
        => \A k \in Keys : Lookup(Engine, k) = shadow[k]

\* C2: put(k, v1) followed by put(k, v2), v2 fitting a page, returns and
\* makes get(k) return v2, also when the growth sends the put through the
\* split loop.
C2_Overwrite ==
    (/\ last.op = "put" /\ prev.op = "put" /\ prev.key = last.key
     /\ prev.result = Some("ok") /\ FitsEmptyPage(LastRecord))
        => /\ last.result = Some("ok")
           /\ Lookup(Engine, last.key) = last.value

\* C2, as far as the code goes: a put that returns makes get return its value.
C2_OverwriteOfReturnedPuts ==
    (last.op = "put" /\ last.result = Some("ok"))
        => Lookup(Engine, last.key) = last.value

\* C3: in every state, over all pages of the buckets file, there is at most
\* one record of any key.
C3_KeyUnique ==
    \A k \in Keys :
        Cardinality(PlacesOf(Engine, 0..(Len(pages) - 1), k)) <= 1

\* C3 witness: a put of a key that was stored with another value went
\* through the split loop and returned.
C3_Witness ==
    /\ last.op = "put" /\ last.result = Some("ok") /\ last.iters > 0
    /\ Lookup(pre, last.key) # None
    /\ Lookup(pre, last.key) # last.value

\* C4: put(k, v) executed right after a put(k, v) that returned leaves the
\* directory, the global level, the bucket count and every page as they
\* were, returns, and get(k) is v.
C4_IdempotentPut ==
    (/\ last.op = "put" /\ prev.op = "put" /\ prev.result = Some("ok")
     /\ prev.key = last.key /\ prev.value = last.value)
        => /\ last.result = Some("ok")
           /\ Engine = pre
           /\ Lookup(Engine, last.key) = last.value

\* C4 witness: the second of two equal puts, the first of which split a
\* bucket.
C4_Witness ==
    /\ last.op = "put" /\ prev.op = "put" /\ prev.result = Some("ok")
    /\ prev.key = last.key /\ prev.value = last.value
    /\ prev.iters > 0

\* C5: after delete(k), get(k) finds nothing, whether k was stored or not,
\* and the delete succeeds; a get(k) executed next returns not-found.
C5_Delete ==
    /\ last.op = "delete"
        => last.result = Some("ok") /\ Lookup(Engine, last.key) = None
    /\ (last.op = "get" /\ prev.op = "delete" /\ prev.key = last.key)
        => last.result = None

\* C5 witness: a delete of a key that was stored.
C5_Witness ==
    /\ last.op = "delete"
    /\ Lookup(pre, last.key) # None

\* C6: delete(k) leaves the answer of get(k2) as it was for every other key
\* k2, also when hash(k2) = hash(k).
C6_DeleteFrame ==
    last.op = "delete"
        => \A k2 \in Keys \ {last.key} : Lookup(Engine, k2) = Lookup(pre, k2)

\* C7: the records found by reading the bucket of every distinct directory
\* entry are the records put (last value per key) minus those deleted, each
\* once.
C7_NoLostRecords ==
    status = "running"
        => \A k \in Keys :
             LET places == PlacesOf(Engine, DirectoryBuckets(Engine), k)
             IN IF shadow[k] = None THEN places = {}
                ELSE /\ Cardinality(places) = 1
                     /\ \A p \in places :
                          pages[p[1] + 1].records[p[2]] = CommandRecord(k, shadow[k][1])

\* C8 (I2): for every bucket b the directory points to, with local level L,
\* the entries pointing to b are exactly the indices j in [0, 2^G) with
\* j mod 2^L = c for one remainder c.
C8_DirectoryInvariant ==
    status = "running"
        => \A b \in DirectoryBuckets(Engine) :
             \E c \in 0..(Pow2(pages[b + 1].level) - 1) :
                 { j \in 0..(Len(bucket_lookup) - 1) : bucket_lookup[j + 1] = b }
                     = { j \in 0..(Pow2(global_level) - 1) :
                           j % Pow2(pages[b + 1].level) = c }

\* C8 witness: a put that returned after local splits only, in a directory
\* that global splits had grown before.
C8_Witness ==
    /\ last.op = "put" /\ last.result = Some("ok") /\ last.iters > 0
    /\ global_level = pre.global_level
    /\ global_level >= 2

\* C9: a put of a record that fits no empty bucket returns OversizedRecord
\* and leaves the directory, the global level, the bucket count and every
\* page as they were.
C9_OversizedRecord ==
    (last.op = "put" /\ ~FitsEmptyPage(LastRecord))
        => /\ last.result = Some("OversizedRecord")
           /\ Engine = pre

\* C10: every put terminates, by returning Ok or OversizedRecord, also when
\* the target bucket holds records of other keys with the same full hash
\* that do not fit one page together with the new record.
C10_PutTerminates ==
    (last.op = "put" /\ FitsEmptyPage(LastRecord))
        => last.result \in { Some("ok"), Some("OversizedRecord") }

\* C11: after a flush and a reopen on the same two files the directory, the
\* global level and the bucket count that were loaded are the ones the
\* engine held in memory at the flush.
C11_DirectoryPersistence ==
    (last.op = "reopen" /\ prev.op = "exit") =>
        /\ status = "running"
        /\ bucket_lookup = pre.bucket_lookup
        /\ global_level = pre.global_level
        /\ bucket_count = pre.bucket_count

\* A reopen after the flush of a directory that has grown and points to more
\* than one bucket.
C11_Witness ==
    /\ last.op = "reopen" /\ prev.op = "exit"
    /\ global_level >= 1
    /\ bucket_count >= 3
    /\ Cardinality(DirectoryBuckets(Engine)) >= 2

\* C12: after puts and deletes, a flush and a reopen, get(k) on the reopened
\* engine returns for every key what it returned right before the flush.
C12_ReopenKeepsGets ==
    (last.op = "reopen" /\ prev.op = "exit") =>
        /\ status = "running"
        /\ \A k \in Keys : Lookup(Engine, k) = Lookup(pre, k)

\* A reopen after a flush with two keys found in different buckets and one
\* key not found.
C12_Witness ==
    /\ last.op = "reopen" /\ prev.op = "exit"
    /\ \E k1, k2 \in Keys :
          /\ Lookup(Engine, k1) # None /\ Lookup(Engine, k2) # None
          /\ hash_to_remainder(Engine, hash_string_key(k1))
                 # hash_to_remainder(Engine, hash_string_key(k2))
    /\ \E k \in Keys : Lookup(Engine, k) = None

\* ------------------------------------------------------- claims on the WAL
\* The command executed last came with the id of a transaction of data.
Known(transaction_id, data) ==
    transaction_id # None /\ transaction_id[1] \in DOMAIN data

\* The list staged under the id the last command came with, when it started.
LastStaged == wal_pre[last_tid[1]]

\* The positions of the mutations of ms that name key.
Naming(ms, key) == { i \in 1..Len(ms) : ms[i].key = key }

\* The mutation of ms staged last among the ones that name key.
Newest(ms, key) ==
    ms[CHOOSE i \in Naming(ms, key) : \A j \in Naming(ms, key) : j <= i]

\* The error value of a command outside a transaction.
ErrorValue(result) == result = Some("Not in a transaction")

\* The engine after the commands of muts, executed one after the other
\* without a transaction id, up to the first one that does not return.
RECURSIVE Sequential(_, _)
Sequential(e, muts) ==
    IF muts = << >> THEN e
    ELSE LET r == execute_mutation(e, << >>, Head(muts), None)
         IN IF r.result = "ok" THEN Sequential(r.e, Tail(muts)) ELSE r.e

\* C13: a GET of k inside a transaction is answered by the mutation staged
\* most recently among the ones of the transaction that name k.
C13_NewestFirst ==
    (last.op = "get" /\ Known(last_tid, wal_pre)
        /\ Naming(LastStaged, last.key) # {}) =>
        last.result = Newest(LastStaged, last.key).value

\* C14: a PUT or DELETE that comes with the id of an open transaction is
\* staged in the WAL and leaves the engine as it is; a ROLLBACK leaves the
\* engine as it is and closes the transaction; a GET without a transaction
\* id, or under an id that has staged nothing for the key, returns the value
\* the engine holds.
C14_Isolation ==
    /\ (last.op \in {"put", "delete"} /\ Known(last_tid, wal_pre)) =>
          /\ Engine = pre
          /\ status = "running"
          /\ last.result = Some("ok")
          /\ wal = [ wal_pre EXCEPT ![last_tid[1]] =
                        Append(@, [ op |-> last.op, key |-> last.key,
                                    value |-> last.value ]) ]
    /\ (last.op = "rollback") =>
          /\ Engine = pre
          /\ Known(last_tid, wal_pre) => last_tid[1] \notin DOMAIN wal
    /\ (last.op = "get" /\ (~Known(last_tid, wal_pre)
                              \/ Naming(LastStaged, last.key) = {})) =>
          /\ Engine = pre
          /\ last.result = Lookup(pre, last.key)

\* A GET without a transaction id returns the value of the engine while an
\* open transaction has staged another value for the key.
C14_Witness ==
    /\ last.op = "get" /\ last_tid = None
    /\ last.result # None
    /\ \E id \in DOMAIN wal : \E i \in 1..Len(wal[id]) :
          /\ wal[id][i].key = last.key
          /\ wal[id][i].value # last.result

\* C15: COMMIT applies the staged mutations in the order they were staged:
\* the engine after it is the engine after the same commands executed one
\* after the other without a transaction, and a key whose newest staged
\* mutation has only puts staged behind it reads as that mutation says.
C15_CommitOrder ==
    (last.op = "commit" /\ Known(last_tid, wal_pre)) =>
        /\ Engine = Sequential(pre, LastStaged)
        /\ last.result = Some("ok") =>
              \A k \in Keys :
                 (/\ Naming(LastStaged, k) # {}
                  /\ \A j \in 1..Len(LastStaged) :
                        (\A i \in Naming(LastStaged, k) : i < j)
                            => LastStaged[j].op = "put")
                 => Lookup(Engine, k) = Newest(LastStaged, k).value

\* A COMMIT of two puts of one key with different values has returned.
C15_Witness ==
    /\ last.op = "commit" /\ Known(last_tid, wal_pre)
    /\ last.result = Some("ok")
    /\ \E i, j \in 1..Len(LastStaged) :
          /\ i < j
          /\ LastStaged[i].op = "put" /\ LastStaged[j].op = "put"
          /\ LastStaged[i].key = LastStaged[j].key
          /\ LastStaged[i].value # LastStaged[j].value
          /\ Lookup(Engine, LastStaged[j].key) = LastStaged[j].value

\* C16: a GET inside a transaction whose list names the key is answered by a
\* staged mutation, whatever the engine holds; any other GET is answered by
\* the engine.
C16_GetRouting ==
    (last.op = "get") =>
        IF Known(last_tid, wal_pre) /\ Naming(LastStaged, last.key) # {}
        THEN \E i \in Naming(LastStaged, last.key) :
                 last.result = LastStaged[i].value
        ELSE last.result = Lookup(pre, last.key)

\* A GET inside a transaction that has staged only a delete of the key is
\* answered NOT_FOUND while the engine holds the key.
C16_Witness ==
    /\ last.op = "get" /\ Known(last_tid, wal_pre)
    /\ Naming(LastStaged, last.key) # {}
    /\ \A i \in Naming(LastStaged, last.key) : LastStaged[i].op = "delete"
    /\ Lookup(Engine, last.key) # None
    /\ last.result = None

\* C17: a PUT, DELETE, COMMIT or ROLLBACK with a transaction id that is not
\* in the WAL, or a COMMIT or ROLLBACK without one, returns an error value,
\* the engine keeps running, the WAL and the engine are unchanged.
C17_UnknownTransaction ==
    (\/ last.op \in {"put", "delete", "commit", "rollback"}
           /\ last_tid # None /\ ~Known(last_tid, wal_pre)
     \/ last.op \in {"commit", "rollback"} /\ last_tid = None) =>
        /\ ErrorValue(last.result)
        /\ status = "running"
        /\ wal = wal_pre
        /\ Engine = pre

\* C18: a COMMIT or ROLLBACK takes the list of its transaction out of the
\* WAL; the id is unknown from then on, a second COMMIT or ROLLBACK returns
\* an error and applies nothing; no list is taken twice.
C18_EndsOnce ==
    /\ \A id \in Tids : Len(ended[id]) <= 1
    /\ \A id \in Tids : ended[id] # << >> => id \notin DOMAIN wal
    /\ (last.op \in {"commit", "rollback"} /\ Known(last_tid, wal_pre)) =>
          last_tid[1] \notin DOMAIN wal
    /\ (last.op \in {"commit", "rollback"} /\ ~Known(last_tid, wal_pre)) =>
          /\ ErrorValue(last.result)
          /\ Engine = pre
          /\ wal = wal_pre

\* The second COMMIT of a transaction whose first COMMIT applied a put.
C18_Witness ==
    /\ last.op = "commit" /\ prev.op = "commit"
    /\ last_tid # None
    /\ ended[last_tid[1]] = << "commit" >>
    /\ ErrorValue(last.result)
    /\ \E k \in Keys : Lookup(Engine, k) # None

\* C19: BEGIN returns an id that is not a key of the WAL and maps it to the
\* empty list; the lists of the other transactions stay as they are at a
\* BEGIN, at a staged PUT or DELETE, at a COMMIT and at a ROLLBACK, and a GET
\* under an id is answered as if the WAL held the list of that id alone.
C19_BeginFresh ==
    /\ (last.op = "begin") =>
          /\ last.result[1] \notin DOMAIN wal_pre
          /\ DOMAIN wal = DOMAIN wal_pre \cup {last.result[1]}
          /\ wal[last.result[1]] = << >>
          /\ \A id \in DOMAIN wal_pre : wal[id] = wal_pre[id]
    /\ (last.op \in {"put", "delete"} /\ Known(last_tid, wal_pre)) =>
          /\ DOMAIN wal = DOMAIN wal_pre
          /\ \A id \in DOMAIN wal \ {last_tid[1]} : wal[id] = wal_pre[id]
    /\ (last.op \in {"commit", "rollback"}) =>
          \A id \in DOMAIN wal_pre :
             (last_tid = None \/ id # last_tid[1]) =>
                 id \in DOMAIN wal /\ wal[id] = wal_pre[id]
    /\ (last.op = "get" /\ Known(last_tid, wal_pre)) =>
          last.result = execute_get(pre, [ id \in {last_tid[1]} |-> LastStaged ],
                                    last.key, last_tid)

\* A mutation is staged under one of two open transactions whose lists
\* differ.
C19_Witness ==
    /\ last.op \in {"put", "delete"} /\ Known(last_tid, wal_pre)
    /\ \E id \in DOMAIN wal \ {last_tid[1]} :
          /\ wal[id] # << >>
          /\ wal[id] # wal[last_tid[1]]

\* C20: when one staged mutation fails in a COMMIT, the engine keeps running,
\* the error is reported, and the mutations staged behind it are applied: a
\* delete staged behind it with no put of its key behind the delete leaves
\* the key not found.
C20_BestEffortCommit ==
    (last.op = "commit" /\ Known(last_tid, wal_pre)
        /\ last.iters < Len(LastStaged)) =>
        /\ status = "running"
        /\ last.result \notin {Some("ok"), Some("panic")}
        /\ \A i \in (last.iters + 2)..Len(LastStaged) :
              (/\ LastStaged[i].op = "delete"
               /\ \A j \in (i + 1)..Len(LastStaged) :
                     LastStaged[j].key # LastStaged[i].key)
              => Lookup(Engine, LastStaged[i].key) = None

\* ------------------------------------------------------- front-end claims
\* The request the engine task is executing has not returned yet.
Executing == mode = "server" /\ task.pc = "exec"

\* The engine or the WAL is written in this step.
StorageWritten == Engine' # Engine \/ wal' # wal

\* A request is taken from the command channel in this step.
Taken == Len(chan') < Len(chan)

\* An output is produced in this step, and the connections that get one.
Answered == { c \in Conns : Len(replies'[c]) > Len(replies[c]) }

InChannel(c) == { i \in 1..Len(chan) : chan[i].conn = c }
Outstanding(c) ==
    Cardinality(InChannel(c))
    + (IF task.pc = "exec" /\ task.msg.conn = c THEN 1 ELSE 0)
    + (IF resp[c] # None THEN 1 ELSE 0)

\* The transaction id of a session after the first n of its outputs rs.
RECURSIVE SessionAfter(_, _)
SessionAfter(rs, n) ==
    IF n = 0 THEN None
    ELSE IF rs[n].out.ok
    THEN handle_command_output_for_transaction_id(rs[n].out, SessionAfter(rs, n - 1))
    ELSE SessionAfter(rs, n - 1)

\* C22: the requests of one TCP connection are executed in the order in
\* which its lines arrived.  A connection has at most one request
\* outstanding; the outputs produced for it are those of its first lines, in
\* order; line n+1 is submitted only when the output of line n is there, and
\* it carries the transaction id of the session as the outputs of lines
\* 1..n left it.
C22_ConnectionOrder ==
    mode = "server" =>
        \A c \in Conns :
            /\ Outstanding(c) <= 1
            /\ Len(replies[c]) <= Len(arrived[c])
            /\ Len(arrived[c]) <= Len(replies[c]) + 1
            /\ \A i \in 1..Len(replies[c]) :
                  /\ replies[c][i].line = arrived[c][i]
                  /\ replies[c][i].transaction_id = SessionAfter(replies[c], i - 1)
            /\ \A i \in InChannel(c) :
                  /\ chan[i].line = arrived[c][Len(arrived[c])]
                  /\ chan[i].transaction_id = SessionAfter(replies[c], Len(replies[c]))
            /\ (task.pc = "exec" /\ task.msg.conn = c) =>
                  /\ task.msg.line = arrived[c][Len(arrived[c])]
                  /\ task.msg.transaction_id = SessionAfter(replies[c], Len(replies[c]))
            /\ (conn[c].pc = "read" /\ resp[c] = None) =>
                  /\ Len(replies[c]) = Len(arrived[c])
                  /\ conn[c].t_id = SessionAfter(replies[c], Len(replies[c]))

\* A connection has had BEGIN and a PUT answered, the PUT under the id that
\* the BEGIN returned, and its third line is in the channel under that id.
C22_Witness ==
    /\ mode = "server"
    /\ Len(replies["c1"]) = 2
    /\ replies["c1"][1].out.kind = "Begin"
    /\ replies["c1"][2].transaction_id = replies["c1"][1].out.arg
    /\ InChannel("c1") # {}
    /\ chan[CHOOSE i \in InChannel("c1") : TRUE].transaction_id # None

\* C23: when SIGINT or SIGTERM comes to the server, every request that was in
\* the command channel by then is executed and answered before the final
\* flush: when the engine task has left its loop, none of them is left.
C23_ShutdownDrains ==
    (mode = "server" /\ task.pc \in {"flush", "done"}) => sig.pending = << >>

\* C24: in the server, the stdin pump and the REPL, once the signal has been
\* delivered the engine executes the flush and the process terminates, with
\* no further line of input.  (A process that a panic of the engine has
\* ended is left aside.)
C24_ShutdownLiveness ==
    (sig.state = "sent" /\ status = "running")
        ~> (status = "panicked" \/ (task.pc = "done" /\ status = "exited"))

\* The i-th line of source c did not parse.
Malformed(c, i) == ~parse_user_command(replies[c][i].line).ok

\* The process has ended though the input of c has not, no signal has come
\* and the engine has not panicked.
EndedByItself(c) == status = "exited" /\ c \notin closed /\ sig.state = "none"

\* C25: a malformed line gets an error as its output and changes neither the
\* engine, the WAL nor the transaction id of the session, and the session -
\* TCP connection, REPL or stdin pump - stays open for the lines that follow.
C25_ParseErrorKeepsSession ==
    \A c \in Conns : \A i \in 1..Len(replies[c]) :
        Malformed(c, i) =>
            /\ ~replies[c][i].out.ok
            /\ ~replies[c][i].changed
            /\ i < Len(replies[c]) =>
                  replies[c][i + 1].transaction_id = replies[c][i].transaction_id
            /\ (i = Len(replies[c]) /\ resp[c] = None /\ conn[c].pc = "read") =>
                  conn[c].t_id = replies[c][i].transaction_id
            /\ i = Len(replies[c]) => ~EndedByItself(c)

\* ------------------------------------------------------------- codec claims
\* The record pushed last, the one codec.bytes encodes.
Encoded == codec.bucket[1].records[Len(codec.bucket[1].records)]

\* C26: the encoding of a record is 13 + key length + value length bytes
\* long and starts with the presence byte 1; decoding it gives the same
\* record with no bytes left over.
C26_RecordRoundTrip ==
    codec.bytes # << >> =>
        /\ Len(codec.bytes) = 13 + Len(Encoded.key) + Len(Encoded.value)
        /\ codec.bytes[1] = 1
        /\ codec.parsed # None =>
              /\ codec.parsed[1].result = "ok"
              /\ codec.parsed[1].record = Encoded
              /\ codec.parsed[1].rest = << >>

\* The record of an empty key and an empty value has been encoded and
\* decoded.
C26_Witness ==
    /\ codec.parsed # None
    /\ Encoded.key = << >>
    /\ Encoded.value = << >>

\* The sum of the lengths of the encodings of the records.
RECURSIVE EncodedLen(_)
EncodedLen(records) ==
    IF records = << >> THEN 0
    ELSE Len(Record_into_bytes(Head(records))) + EncodedLen(Tail(records))

\* C27: a bucket whose records fit in a page, saved at its index and read
\* back from that index, is the same bucket: index, level, the records in
\* their order, and remaining_byte_space, which is 4095 less the lengths of
\* the records - with empty keys and values and with a full page as well.
C27_BucketRoundTrip ==
    codec.back # None =>
        /\ codec.back[1].result = "ok"
        /\ codec.back[1].bucket_index = codec.saved[1].bucket_index
        /\ codec.back[1].level = codec.saved[1].level
        /\ codec.back[1].records = codec.saved[1].records
        /\ codec.back[1].remaining_byte_space = codec.saved[1].remaining_byte_space
        /\ codec.back[1].remaining_byte_space = 4095 - EncodedLen(codec.saved[1].records)

\* A bucket of two records that fill its page to the last byte has been
\* saved at index 1 and read back.
C27_Witness ==
    /\ codec.back # None
    /\ codec.saved[1].bucket_index = 1
    /\ Len(codec.saved[1].records) = 2
    /\ codec.saved[1].remaining_byte_space = 0

\* ------------------------------------------------------------- split claims
\* The split iterations of put(e, record) from the bucket it holds: for each
\* the engine before it, the bucket that is split, and the engine after it.
RECURSIVE SplitIterations(_, _, _)
SplitIterations(e, bucket, record) ==
    IF put_fits(bucket, record) \/ bucket.level + 1 >= HashBits THEN << >>
    ELSE LET s == split_step(e, bucket, record)
         IN << [ e |-> e, bucket |-> bucket, after |-> s.e ] >>
                \o SplitIterations(s.e, s.bucket, record)

PutIterations(e, record) ==
    SplitIterations(e, read_from_file(e.pages,
                           e.bucket_lookup[hash_to_remainder(e, record.hash) + 1]),
                    record)

\* The split iterations of the put executed last (last.op = "put").
LastIterations == PutIterations(pre, LastRecord)

\* The iteration raises the level of its bucket to a value <= G.
IsLocal(it) == it.bucket.level + 1 <= it.e.global_level

\* The engine of the test local_split, and the one of global_split.
TestRecord(key) == CommandRecord(key, CHOOSE v \in Values : v.len = 4000)
TestLocalSplit ==
    [ bucket_lookup |-> << 0, 1, 0, 2, 0, 3, 0, 4 >>, global_level |-> 3,
      bucket_count |-> 5,
      pages |-> << [ level |-> 1, records |-> << TestRecord("A") >> ],
                   [ level |-> 3, records |-> << >> ], [ level |-> 3, records |-> << >> ],
                   [ level |-> 3, records |-> << >> ], [ level |-> 3, records |-> << >> ] >> ]
TestGlobalSplit ==
    [ bucket_lookup |-> << 0, 1 >>, global_level |-> 1, bucket_count |-> 2,
      pages |-> << [ level |-> 1, records |-> << TestRecord("A") >> ],
                   [ level |-> 1, records |-> << >> ] >> ]

\* The local split of one iteration, with R the low bits of the hash of the
\* record at the old level of the bucket.
LocalSplitStep(it, record) ==
    LET new_level == it.bucket.level + 1
        R == record.hash % Pow2(it.bucket.level)
    IN /\ it.after.global_level = it.e.global_level
       /\ Len(it.after.bucket_lookup) = Len(it.e.bucket_lookup)
       /\ it.after.bucket_count = it.e.bucket_count + 1
       /\ \A j \in 0..(Len(it.e.bucket_lookup) - 1) :
             it.after.bucket_lookup[j + 1] =
                 IF it.e.bucket_lookup[j + 1] = it.bucket.bucket_index
                    /\ j % Pow2(new_level) > R
                 THEN it.e.bucket_count
                 ELSE it.e.bucket_lookup[j + 1]

\* C28: a split iteration that raises the level of the bucket to a value
\* <= G leaves the global level and the length of the directory, adds 1 to
\* bucket_count, and changes those entries of the directory, and only those,
\* that pointed to the split bucket at an index j with j mod 2^(new level)
\* > R, R the low old-level bits of the hash of the record: they point to
\* the new bucket.  A put may do this more than once: the directory
\* [0,1,0,2,0,3,0,4] becomes [0,1,5,2,0,3,6,4].
C28_LocalSplitStep ==
    /\ last.op = "put" =>
          /\ \A k \in 1..Len(LastIterations) :
                IsLocal(LastIterations[k]) => LocalSplitStep(LastIterations[k], LastRecord)
          /\ (last.result = Some("ok") /\ LastIterations # << >>) =>
                LastIterations[Len(LastIterations)].after.bucket_lookup = bucket_lookup
    /\ LET r == put(TestLocalSplit, TestRecord("C"))
       IN /\ r.result = "ok"
          /\ r.iters = 2
          /\ \A k \in 1..2 : IsLocal(PutIterations(TestLocalSplit, TestRecord("C"))[k])
          /\ r.e.bucket_lookup = << 0, 1, 5, 2, 0, 3, 6, 4 >>
          /\ r.e.global_level = 3
          /\ r.e.bucket_count = 7

\* A put has returned after a local split that moved entries of the
\* directory to the new bucket.
C28_Witness ==
    /\ last.op = "put"
    /\ last.result = Some("ok")
    /\ \E k \in 1..Len(LastIterations) :
          /\ IsLocal(LastIterations[k])
          /\ LastIterations[k].after.bucket_lookup # LastIterations[k].e.bucket_lookup

\* The global split of one iteration, with R the low G bits of the hash of
\* the record, G the global level before the iteration.
GlobalSplitStep(it, record) ==
    LET old_len == Len(it.e.bucket_lookup)
        R == record.hash % Pow2(it.e.global_level)
    IN /\ it.after.global_level = it.e.global_level + 1
       /\ it.after.bucket_count = it.e.bucket_count + 1
       /\ Len(it.after.bucket_lookup) = 2 * old_len
       /\ \A j \in 0..(old_len - 1) :
             /\ it.after.bucket_lookup[j + 1] = it.e.bucket_lookup[j + 1]
             /\ it.after.bucket_lookup[old_len + j + 1] =
                   IF j = R THEN it.e.bucket_count ELSE it.e.bucket_lookup[j + 1]

\* C29: a split iteration that raises the level of the bucket above G doubles
\* the directory by a copy of itself, points the one entry old_len + R of
\* the upper half to the new bucket, R the low G bits of the hash of the
\* record under the G before the iteration, keeps every other entry, and
\* adds 1 to G and to bucket_count.  Global splits that follow each other in
\* one put take R under the G they find: [0,1] becomes [0,1,2,1,0,1,3,1]
\* with G = 3.
C29_GlobalSplitStep ==
    /\ last.op = "put" =>
          /\ \A k \in 1..Len(LastIterations) :
                ~IsLocal(LastIterations[k]) => GlobalSplitStep(LastIterations[k], LastRecord)
          /\ (last.result = Some("ok") /\ LastIterations # << >>) =>
                /\ LastIterations[Len(LastIterations)].after.global_level = global_level
                /\ LastIterations[Len(LastIterations)].after.bucket_count = bucket_count
    /\ LET r == put(TestGlobalSplit, TestRecord("C"))
       IN /\ r.result = "ok"
          /\ r.iters = 2
          /\ r.e.bucket_lookup = << 0, 1, 2, 1, 0, 1, 3, 1 >>
          /\ r.e.global_level = 3
          /\ r.e.bucket_count = 4

\* A put has returned after two global splits.
C29_Witness ==
    /\ last.op = "put"
    /\ last.result = Some("ok")
    /\ Cardinality({ k \in 1..Len(LastIterations) : ~IsLocal(LastIterations[k]) }) >= 2

\* The records of the page of bucket b that the directory does not lead to.
Misplaced(e, b) ==
    { i \in 1..Len(e.pages[b + 1].records) :
        e.bucket_lookup[hash_to_remainder(e, e.pages[b + 1].records[i].hash) + 1] # b }

\* C30 (I3): while the engine runs, every record r in the page of a bucket
\* b of the directory has directory[r.hash mod 2^G] = b: the bucket that
\* get and delete read for the key of r is the bucket that holds r.
C30_RecordPlacement ==
    status = "running"
        => \A b \in DirectoryBuckets(Engine) : Misplaced(Engine, b) = {}

\* ------------------------------------------------------- engine invariants
\* Every bucket of the directory of e has a local level <= the global level.
LevelBound(e) ==
    \A b \in DirectoryBuckets(e) : e.pages[b + 1].level <= e.global_level

\* C31 (I1): while the engine runs, and between two iterations of the split
\* loop of a put, every bucket a directory entry refers to has a local
\* level <= the global level.
C31_LevelBound ==
    /\ status = "running" => LevelBound(Engine)
    /\ (last.op = "put" /\ LevelBound(pre)) =>
          \A k \in 1..Len(LastIterations) : LevelBound(LastIterations[k].after)

\* C32 (I5): in every state the byte lengths of the records of every page
\* plus the byte of the header are at most 4096, so that
\* remaining_byte_space = 4095 - sum is not negative: an overwrite in place
\* with a longer value, an append and the redistribution of a split leave no
\* bucket above its capacity.
C32_PageCapacity ==
    \A i \in 1..Len(pages) :
        /\ records_byte_len(pages[i].records) + BUCKET_HEADER_BYTES <= PAGE_BYTES
        /\ remaining_byte_count(pages[i].records) >= 0

\* A put has overwritten a value in place by a longer one, in a bucket that
\* could not take the whole record once more.
C32_Witness ==
    /\ last.op = "put"
    /\ last.result = Some("ok")
    /\ last.iters = 0
    /\ Lookup(pre, last.key) # None
    /\ Lookup(pre, last.key)[1].len < last.value[1].len
    /\ LET b == bucket_lookup[hash_to_remainder(Engine, LastRecord.hash) + 1]
       IN remaining_byte_count(pre.pages[b + 1].records) < byte_len(LastRecord)

\* HashStorage::new on two empty files.
NewOnEmptyFiles == HashStorage_new(<< >>, EmptyBucketsFile)

\* C33: HashStorage::new on two empty files gives the directory [0], the
\* global level 0, the bucket count 1 and bucket 0 stored as an empty page
\* of level 0; this is the state the engine starts in, and get of any key
\* returns nothing there.
C33_InitialState ==
    /\ NewOnEmptyFiles.result = "ok"
    /\ NewOnEmptyFiles.e.bucket_lookup = << 0 >>
    /\ NewOnEmptyFiles.e.global_level = 0
    /\ NewOnEmptyFiles.e.bucket_count = 1
    /\ NewOnEmptyFiles.e.pages = << [ level |-> 0, records |-> << >> ] >>
    /\ \A k \in Keys : Lookup(NewOnEmptyFiles.e, k) = None
    /\ nops = 0 => /\ Engine = NewOnEmptyFiles.e
                   /\ buckets_header = NewOnEmptyFiles.header
                   /\ directory_file = << >>
    /\ (nops = 1 /\ last.op = "get") => last.result = None

\* The first command on the new engine was a get; it found nothing.
C33_Witness ==
    /\ nops = 1
    /\ last.op = "get"
    /\ last.result = None
    /\ pre = NewOnEmptyFiles.e

\* The buckets of the engine e: the allocated ones and the ones the
\* directory points to.
Buckets(e) == { b \in 0..(Len(e.pages) - 1) : b < e.bucket_count } \cup DirectoryBuckets(e)

\* The step is a command of the engine (not the start of a new session).
CommandStep == nops' = nops + 1 /\ last'.op \in { "put", "get", "delete" }

\* C34: over the commands of the engine the bucket count, the global level
\* and the length of the directory never decrease, and the local level of
\* a bucket never decreases; get, delete and a put that fits without a
\* split leave the directory, the global level and the bucket count; delete
\* frees and merges no bucket and rewrites only the page of the bucket it
\* looked up.
C34_GrowthOnly ==
    [][ CommandStep =>
          /\ bucket_count' >= bucket_count
          /\ global_level' >= global_level
          /\ Len(bucket_lookup') >= Len(bucket_lookup)
          /\ Len(pages') >= Len(pages)
          /\ \A b \in Buckets(Engine) : pages'[b + 1].level >= pages[b + 1].level
          /\ (last'.op \in { "get", "delete" } \/ (last'.op = "put" /\ last'.iters = 0))
                => /\ bucket_lookup' = bucket_lookup
                   /\ global_level' = global_level
                   /\ bucket_count' = bucket_count
          /\ last'.op = "get" => pages' = pages
          /\ last'.op = "delete" =>
                LET b == bucket_lookup[hash_to_remainder(Engine, hash_string_key(last'.key)) + 1]
                IN /\ Len(pages') = Len(pages)
                   /\ \A i \in 1..Len(pages) :
                         /\ pages'[i].level = pages[i].level
                         /\ i # b + 1 => pages'[i] = pages[i] ]_vars

\* A delete has emptied a bucket beside others, after splits.
C34_Witness ==
    /\ last.op = "delete"
    /\ pre.bucket_count >= 3
    /\ Lookup(pre, last.key) # None
    /\ LET b == bucket_lookup[hash_to_remainder(Engine, hash_string_key(last.key)) + 1]
       IN pages[b + 1].records = << >>

\* ------------------------------------------------------ transaction claims
\* The session of source c can still send a request.
Live(c) ==
    IF mode = "server" THEN conn[c].pc \in { "read", "wait" }
    ELSE c = "c1" /\ status = "running"

\* Transaction id is the one of a session that can still send it, of a
\* request on its way or at hand, or of a Begin whose output is on its way
\* to its session.
HeldBy(id) ==
    \/ \E c \in Conns : Live(c) /\ conn[c].t_id = Some(id)
    \/ \E i \in 1..Len(chan) : chan[i].transaction_id = Some(id)
    \/ task.pc = "exec" /\ task.msg.transaction_id = Some(id)
    \/ \E c \in Conns : /\ Live(c)
                        /\ resp[c] # None
                        /\ resp[c][1].kind = "Begin"
                        /\ resp[c][1].arg = Some(id)

\* The transaction has a list in the WAL and is abandoned: replaced in its
\* session by a later BEGIN, or left by a connection that has closed.
Abandoned(id) == id \in DOMAIN wal /\ ~HeldBy(id)

\* s is a suffix of t.
IsSuffix(s, t) ==
    Len(s) <= Len(t) /\ s = SubSeq(t, Len(t) - Len(s) + 1, Len(t))

Flushed ==
    /\ load_directory(directory_file).result = "ok"
    /\ load_directory(directory_file).bucket_lookup = bucket_lookup
    /\ load_directory(directory_file).global_level = global_level
    /\ load_buckets_file(buckets_header) = bucket_count

\* C36: in each front-end, when the process has stopped taking commands and
\* has terminated normally (EXIT, end of the input, a command that returned
\* an error, a signal), a flush behind the last change of the engine has
\* written the directory and the bucket count: the process never exits with
\* code 0 while the files differ from the fields in memory.
C36_FlushBeforeExit ==
    status = "exited" => Flushed

\* C37: a signal abandons no request midway: a PUT, DELETE or COMMIT that
\* has started is applied to its end before the flush of the shutdown, in
\* every front-end; the flush never runs with the two pages of a split saved
\* but bucket_count and the directory not yet updated, nor with the list of
\* a COMMIT removed from the WAL and only a prefix of it applied.
C37_NoRequestAbandoned ==
    task.pc \in { "flush", "done" } =>
        /\ task.muts = << >>
        /\ Len(pages) <= bucket_count

\* C38: while the engine runs the directory has exactly 2^global_level
\* entries: the level save_directory derives from the length of the vector
\* is the global level in memory, and load_directory reads the whole vector
\* back from what save_directory writes.
C38_DirectoryLength ==
    status = "running" =>
        /\ Len(bucket_lookup) = Pow2(global_level)
        /\ addr_count_to_global_level(Len(bucket_lookup)) = global_level
        /\ LET d == load_directory(save_directory(bucket_lookup, directory_file))
           IN /\ d.result = "ok"
              /\ d.bucket_lookup = bucket_lookup
              /\ d.global_level = global_level

\* A directory of more than two entries, grown by global splits, has been
\* flushed and loaded again.
C38_Witness ==
    /\ last.op = "reopen"
    /\ prev.op = "exit"
    /\ status = "running"
    /\ global_level >= 2
    /\ Len(bucket_lookup) = Pow2(global_level)

\* The split of the last put that gave its new bucket the index of a bucket
\* the directory pointed to.
OverwritingSplits ==
    { k \in 1..Len(LastIterations) :
        LastIterations[k].e.bucket_count \in DirectoryBuckets(LastIterations[k].e) }

\* C39: while the engine runs, also on what a new session has loaded from
\* the files of an earlier one, with or without a flush at its end,
\* bucket_count >= 1 and every entry of the directory is < bucket_count; so
\* a split never gives its new bucket the index of a bucket the directory
\* points to and never overwrites a live page.
C39_EntriesAllocated ==
    /\ status = "running" =>
          /\ bucket_count >= 1
          /\ \A b \in DirectoryBuckets(Engine) : b < bucket_count
    /\ last.op = "put" => OverwritingSplits = {}

====
